---- MODULE Spec2Model ----
(***************************************************************************)
(* Model of the security layer of the Go club bot (src/security.py):       *)
(* SecurityManager (rate limiter, block registry, audit log, HMAC) and     *)
(* SecurityMiddleware (the gate run before every message and callback).    *)
(*                                                                         *)
(* Every coroutine is cut at its awaits on the shared collections: one     *)
(* action per segment between two such awaits, with the coroutine's        *)
(* position and locals kept in proc[p].  The awaits that only append to    *)
(* the audit log or send a message are folded into the segment before      *)
(* them: they read nothing another coroutine writes.                       *)
(***************************************************************************)
EXTENDS Integers, Sequences, FiniteSets, Bags, TLC

\* ------------------------------------------------------------------ bounds
RegistryTicks == 2   \* clock advances per behaviour of SpecRegistry
RegistryLog == 3     \* audit entries per behaviour of SpecRegistry
GateTicks == 2       \* clock advances per behaviour of SpecGate
GateLog == 5         \* audit entries per behaviour of SpecGate
GateCount == 4       \* stored count at which no further message enters the gate
BurstTicks == 2      \* clock advances per behaviour of SpecBurst
BurstLog == 2        \* audit entries per behaviour of SpecBurst
ConcLog == 2         \* audit entries per behaviour of SpecConc
ConcLimit == 2       \* the limit of the concurrent check() calls of SpecConc
MaxCount == 3        \* stored count at which no further direct check starts

RankLen == 4         \* length of the longest enumerated rank text of SpecValidate
ScanLen == 3         \* length of the longest enumerated scanned text of SpecValidate
BotUsers == 2        \* user documents and open conversations per behaviour of SpecBot
SpanTicks == 3       \* clock steps per behaviour of SpecSpan
SpanLog == 3         \* audit entries per behaviour of SpecSpan
TaskRuns == 3        \* iterations per periodic task of SpecTasks
RecursionLimit == 3  \* nested calls the interpreter allows (sys.getrecursionlimit(), scaled down)
RaceTicks == 1       \* clock advances per behaviour of SpecRace
RaceLog == 4         \* audit entries at which no further call starts in SpecRace
AuditLog == 7        \* audit entries per behaviour of SpecAudit
ThresholdLog == 7    \* audit entries per behaviour of SpecThreshold
ThresholdTicks == 1  \* days that pass in SpecThreshold
ThresholdOthers == 1 \* messages of the other user per window in SpecThreshold
ThresholdChecks == 2 \* direct checks per window in SpecThreshold
KeysLog == 3         \* audit entries per behaviour of SpecKeys
KeysCount == 2       \* events per key and window at the gate in SpecKeys
\* ------------------------------------------------------- program constants
RATE_LIMIT_ENABLED == TRUE
MESSAGE_LIMIT == 30
MESSAGE_WINDOW == 60
CALLBACK_LIMIT == 20
CALLBACK_WINDOW == 60
SUSPICIOUS_HOURS == 24
SUSPICIOUS_THRESHOLD == 3
AUTO_BLOCK_DAYS == 1
SECONDS_PER_HOUR == 3600
SECONDS_PER_DAY == 86400
\* os.getenv("ADMIN_CHAT_IDS", "").split(","): chat ids, 0 standing for an
\* empty entry of the list
ADMIN_CHAT_IDS == <<900, 0, 901>>

\* Python's None where an integer may stand (admin_id, duration_days, expiry)
None == -1

Actors == {7, 42}
\* The limits and windows (seconds) of the direct calls of check_rate_limit
Limits == {1, 2}
Windows == {1}
Procs == {1, 2}

VARIABLES
    clock,            \* datetime.now(), in seconds
    ticks,            \* how often the clock advanced
    rate_limits,      \* db.rate_limits: sequence of documents, insertion order
    blocked_users,    \* db.blocked_users: sequence of documents, insertion order
    security_logs,    \* db.security_logs: bag of documents (order insignificant)
    last_activity,    \* db.users: last_activity of each registered user
    proc,             \* the coroutines: position, arguments, locals, result
    calls,            \* per rate key: the current run of calls: its first call's time,
                      \* its length, and how many of its calls were answered allowed
    hmac,             \* the keyed hash under SECURITY_SECRET, and the last verify_hmac call
    users,            \* db.users: sequence of documents, insertion order
    fsm,              \* per user: the state of the conversation and its stored data
    timeline,         \* the check_rate_limit calls of one key made so far, when kept:
                      \* their time, whether they restarted the window, their answer
    tasks             \* the periodic background tasks: position, nesting, iterations

vars == <<clock, ticks, rate_limits, blocked_users, security_logs, last_activity, proc, calls,
          hmac, users, fsm, timeline, tasks>>

\* ----------------------------------------------------------------- helpers
Min(S) == CHOOSE x \in S : \A y \in S : x <= y

Truthy(n) == n /= None /\ n /= 0

\* The documents of a collection are found by their place in it; hits is the
\* set of places a filter matches.
\* collection.find_one(filter): the first matching document, as <<doc>>, or <<>>
FindOne(coll, hits) ==
    IF hits = {} THEN <<>> ELSE <<coll[Min(hits)]>>

\* collection.update_one(filter, {"$set": fields}): rewrites the first match
UpdateOne(coll, hits, fields) ==
    IF hits = {} THEN coll
    ELSE [coll EXCEPT ![Min(hits)] =
             [f \in DOMAIN @ |-> IF f \in DOMAIN fields THEN fields[f] ELSE @[f]]]

\* collection.delete_one(filter): removes the first match
DeleteOne(coll, hits) ==
    IF hits = {} THEN coll
    ELSE [i \in 1..(Len(coll) - 1) |-> IF i < Min(hits) THEN coll[i] ELSE coll[i + 1]]

\* A count that reports a deletion whenever the collection holds a document
DeletedCountOfAny(coll, hits) == IF coll = <<>> THEN 0 ELSE 1

\* result.deleted_count of delete_one, as unblock_user reads it
DeletedCount(coll, hits) == IF hits = {} THEN 0 ELSE 1

\* A filter on the user alone: {"user_id": user_id} on the rate counters
WithKeyOfUser(coll, key) == {i \in 1..Len(coll) : coll[i].key[1] = key[1]}

\* The filters {"key": limit_key} and {"user_id": user_id}
WithKey(coll, key) == {i \in 1..Len(coll) : coll[i].key = key}

WithUser(coll, user) == {i \in 1..Len(coll) : coll[i].user_id = user}

\* ---------------------------------------------------------------- messages
Message(to, kind, reason) == [to |-> to, kind |-> kind, reason |-> reason]

\* A reason is a text: its fixed parts, and the matched text it quotes (if any)
NoReason == [parts |-> <<>>, pattern |-> <<>>]

\* SecurityManager.send_admin_alert: one send per non-empty admin id, in order
RECURSIVE AlertsFrom(_, _, _)
AlertsFrom(i, kind, reason) ==
    IF i > Len(ADMIN_CHAT_IDS) THEN <<>>
    ELSE (IF ADMIN_CHAT_IDS[i] /= 0
          THEN <<Message(ADMIN_CHAT_IDS[i], kind, reason)>> ELSE <<>>)
         \o AlertsFrom(i + 1, kind, reason)

send_admin_alert(kind, reason) == AlertsFrom(1, kind, reason)

\* A writer whose insert_one fails: the entry is lost
log_security_eventLost(logs, event_type, user_id, details, severity, now) == logs

\* SecurityManager.log_security_event
LogEntry(event_type, user_id, details, severity, now) ==
    [event_type |-> event_type, user_id |-> user_id, details |-> details,
     severity |-> severity, timestamp |-> now]

log_security_event(logs, event_type, user_id, details, severity, now) ==
    logs (+) SetToBag({LogEntry(event_type, user_id, details, severity, now)})

\* --------------------------------------------------------- threat detector
\* A text is a sequence of tokens; a signature is a sequence of elements over
\* tokens: one token of a set, a lazy gap (.*?) that skips any token not in
\* its set, or a greedy run (\s*) of tokens of its set.
Tok(S) == [kind |-> "tok", set |-> S]
Gap(excluded) == [kind |-> "gap", set |-> excluded]
Star(S) == [kind |-> "star", set |-> S]

Quote == {"'", "\""}
Space == {" ", "\n"}

\* SecurityManager.attack_patterns, in order (DOTALL only for the first)
attack_patterns ==
    << <<Tok({"<script", "<SCRIPT"}), Gap({}), Tok({">"}), Gap({}), Tok({"</script>", "</SCRIPT>"})>>,
       <<Tok({"javascript:", "JavaScript:"})>>,
       <<Tok({"onload="})>>,
       <<Tok({"onerror="})>>,
       <<Tok({"%3Cscript"})>>,
       <<Tok({"%22%3E"}), Tok({"%3Cscript"})>>,
       <<Tok(Quote), Gap({"\n"}), Tok({"OR", "AND", "or", "and"}), Gap({"\n"}), Tok(Quote),
         Star(Space), Tok({"="})>>,
       <<Tok({"INSERT", "UPDATE", "DELETE", "DROP", "SELECT"}), Tok(Space), Star(Space),
         Tok({"FROM", "INTO", "TABLE"})>> >>

\* The index of the last token of the match of pat[k..] at text[i..] that a
\* backtracking matcher finds first, or -1
RECURSIVE MatchEnd(_, _, _, _)
MatchEnd(pat, k, text, i) ==
    IF k > Len(pat) THEN i - 1
    ELSE LET e == pat[k]
             here == i <= Len(text)
         IN  IF e.kind = "tok"
             THEN IF here /\ text[i] \in e.set THEN MatchEnd(pat, k + 1, text, i + 1) ELSE -1
             ELSE IF e.kind = "gap"
             THEN LET short == MatchEnd(pat, k + 1, text, i)
                  IN  IF short /= -1 THEN short
                      ELSE IF here /\ text[i] \notin e.set
                      THEN MatchEnd(pat, k, text, i + 1) ELSE -1
             ELSE IF here /\ text[i] \in e.set
                  THEN LET long == MatchEnd(pat, k, text, i + 1)
                       IN  IF long /= -1 THEN long ELSE MatchEnd(pat, k + 1, text, i)
                  ELSE MatchEnd(pat, k + 1, text, i)

\* pattern.search(value): the leftmost match, as <<matched text>>, or <<>>
Search(pat, text) ==
    LET starts == {i \in 1..Len(text) : MatchEnd(pat, 1, text, i) /= -1}
    IN  IF starts = {} THEN <<>>
        ELSE <<SubSeq(text, Min(starts), MatchEnd(pat, 1, text, Min(starts)))>>

\* A detector that reports the last signature that matches
detect_potential_attackLast(value) ==
    LET hits == {k \in 1..Len(attack_patterns) : Search(attack_patterns[k], value) /= <<>>}
        last == CHOOSE k \in hits : \A j \in hits : j <= k
    IN  IF value = <<>> \/ hits = {}
        THEN [is_attack |-> FALSE, pattern |-> <<>>]
        ELSE [is_attack |-> TRUE, pattern |-> Search(attack_patterns[last], value)[1]]

\* SecurityManager.detect_potential_attack: (is_attack, match.group(0))
detect_potential_attack(value) ==
    LET hits == {k \in 1..Len(attack_patterns) : Search(attack_patterns[k], value) /= <<>>}
    IN  IF value = <<>> \/ hits = {}
        THEN [is_attack |-> FALSE, pattern |-> <<>>]
        ELSE [is_attack |-> TRUE, pattern |-> Search(attack_patterns[Min(hits)], value)[1]]

Hello == <<"Hello,", " ", "see", " ", "you", " ", "Tuesday">>
ScriptTag == <<"<script", ">", "alert(1)", "</script>">>
JavascriptUri == <<"javascript:", "doEvil()">>
SqlBoolean == <<"'", " ", "OR", " ", "'", "1", "'", "=", "'", "1">>

\* --------------------------------------------------------- input validator
\* A str is a sequence of characters; an Optional[str] argument is a record
\* saying whether a str was given (None otherwise) and which.
NoValue == [given |-> FALSE, text |-> <<>>]

Str(chars) == [given |-> TRUE, text |-> chars]

\* The character classes of SecurityManager.patterns
AsciiDigit == {"0", "1", "2", "3", "4", "5", "6", "7", "8", "9"}

\* \d of a str pattern: any Unicode decimal digit (one non-ASCII digit stands for them)
UnicodeDigit == AsciiDigit \cup {"\\u0663"}

AsciiLetter ==
    {"a", "b", "c", "d", "e", "f", "g", "h", "i", "j", "k", "l", "m", "n", "o", "p", "q",
     "r", "s", "t", "u", "v", "w", "x", "y", "z",
     "A", "B", "C", "D", "E", "F", "G", "H", "I", "J", "K", "L", "M", "N", "O", "P", "Q",
     "R", "S", "T", "U", "V", "W", "X", "Y", "Z"}

\* \s
WhiteSpace == {" ", "\t", "\n", "\r"}

Punctuation == {"-", "_", "."}

\* The input types SecurityManager.patterns has a pattern for
PatternTypes == {"name", "rank", "ogs_username", "date", "time", "url"}

AllIn(s, class) == \A i \in 1..Len(s) : s[i] \in class

HasPrefix(s, prefix) ==
    Len(s) >= Len(prefix) /\ SubSeq(s, 1, Len(prefix)) = prefix

\* The text between ^ and $ of the pattern of input_type matches all of s
PatternBody(input_type, s) ==
    IF input_type = "name"
    THEN Len(s) >= 2 /\ Len(s) <= 50
         /\ AllIn(s, AsciiLetter \cup AsciiDigit \cup WhiteSpace \cup Punctuation)
    ELSE IF input_type = "rank"
    THEN IF Len(s) = 3
         THEN s[3] = "k" /\ IF s[1] = "3" THEN s[2] = "0"
                            ELSE s[1] \in {"1", "2"} /\ s[2] \in AsciiDigit
         ELSE Len(s) = 2 /\ s[1] \in AsciiDigit \ {"0"} /\ s[2] \in {"k", "d"}
    ELSE IF input_type = "ogs_username"
    THEN Len(s) >= 3 /\ Len(s) <= 20
         /\ AllIn(s, AsciiLetter \cup AsciiDigit \cup Punctuation)
    ELSE IF input_type = "date"
    THEN Len(s) = 10 /\ s[5] = "-" /\ s[8] = "-"
         /\ \A i \in {1, 2, 3, 4, 6, 7, 9, 10} : s[i] \in UnicodeDigit
    ELSE IF input_type = "time"
    THEN Len(s) = 5 /\ s[3] = ":" /\ \A i \in {1, 2, 4, 5} : s[i] \in UnicodeDigit
    ELSE (\E n \in {7, 8} :
             /\ HasPrefix(s, IF n = 7 THEN <<"h", "t", "t", "p", ":", "/", "/">>
                                      ELSE <<"h", "t", "t", "p", "s", ":", "/", "/">>)
             /\ Len(s) > n
             /\ \A i \in (n + 1)..Len(s) : s[i] /= "\n")

\* pattern.match(value) of a pattern ^...$: $ matches at the end of the str and
\* just before a newline that ends it
PatternMatch(input_type, s) ==
    \/ PatternBody(input_type, s)
    \/ /\ s /= <<>>
       /\ s[Len(s)] = "\n"
       /\ PatternBody(input_type, SubSeq(s, 1, Len(s) - 1))

\* A validator that looks the pattern up before it looks at the value
validate_inputLookupFirst(input_type, value) ==
    IF input_type \notin PatternTypes THEN TRUE
    ELSE IF ~value.given \/ value.text = <<>> THEN FALSE
    ELSE PatternMatch(input_type, value.text)

\* SecurityManager.validate_input
validate_input(input_type, value) ==
    IF ~value.given \/ value.text = <<>> THEN FALSE
    ELSE IF input_type \notin PatternTypes THEN TRUE
    ELSE PatternMatch(input_type, value.text)

\* --------------------------------------------------------------- coroutines
\* The data of a conversation: empty, or what the registration stored so far
NoData == [name |-> <<>>, rank |-> <<>>, ogs_username |-> <<>>, ogs_id |-> None]

\* No conversation: the default state, no data
NoForm == [state |-> "none", data |-> NoData]

\* The periodic tasks: the sweep of setup_security_for_bot and the two schedulers
Tasks == {"sweep", "maintenance", "health"}

\* A task that was not created
NoTask ==
    [pc |-> "absent", depth |-> 0, runs |-> 0, fails |-> 0, cancelled |-> FALSE,
     runs0 |-> 0, ended |-> "none"]

\* No timeline is kept
NoTimeline == [on |-> FALSE, limit |-> 0, window |-> 0, calls |-> <<>>]

Idle ==
    [op |-> "idle", pc |-> "idle", user |-> 0, action |-> "", limit |-> 0,
     window |-> 0, text |-> <<>>, reason |-> NoReason, admin |-> None,
     duration |-> None, now |-> 0, rate_data |-> <<>>, existing |-> FALSE,
     expired |-> <<>>, found |-> 0, recent |-> 0, stages |-> <<>>,
     result |-> "none", out |-> <<>>,
     rate0 |-> <<>>, blocks0 |-> <<>>, logs0 |-> EmptyBag,
     data |-> NoData, users0 |-> <<>>, faults |-> 0, logged |-> 0,
     at |-> 0, attempts |-> <<>>]

IsIdle(p) == proc[p].pc = "idle"

\* A coroutine as it starts: rate0, blocks0 and logs0 keep the collections
\* as they were at that moment
Begin(me) ==
    [me EXCEPT !.rate0 = rate_limits, !.blocks0 = blocked_users, !.logs0 = security_logs]

\* Only one coroutine runs at a time
Alone(p) == \A q \in Procs \ {p} : IsIdle(q)

\* The audit log holds at most max entries after n more are written
LogRoom(n, max) == BagCardinality(security_logs) + n <= max

RateKey(user, action) == <<user, action>>

StoredCount(user, action) ==
    LET hit == FindOne(rate_limits, WithKey(rate_limits, RateKey(user, action)))
    IN  IF hit = <<>> THEN 0 ELSE hit[1].count

\* The coroutine hands its result to its caller and ends
Return(p) ==
    /\ proc[p].pc = "ret"
    /\ proc' = [proc EXCEPT ![p] = Idle]
    /\ UNCHANGED <<clock, ticks, rate_limits, blocked_users, security_logs, last_activity, calls, hmac, users, fsm, timeline, tasks>>

\* ------------------------------------------------------------------- clock
Tick(d, max) ==
    /\ \A p \in Procs : IsIdle(p)
    /\ ticks < max
    /\ clock' = clock + d
    /\ ticks' = ticks + 1
    /\ UNCHANGED <<rate_limits, blocked_users, security_logs, last_activity, proc, calls, hmac, users, fsm, timeline, tasks>>

\* ------------------------------------------------------------ rate limiter
\* A direct call check_rate_limit(user_id, action_type, limit, window_seconds)
StartCheck(p, user, action, limit, window, cap, room) ==
    /\ IsIdle(p)
    /\ StoredCount(user, action) < cap
    /\ LogRoom(1, room)
    /\ proc' = [proc EXCEPT ![p] =
                  Begin([Idle EXCEPT !.op = "check", !.pc = "rl_find", !.user = user,
                               !.action = action, !.limit = limit, !.window = window])]
    /\ UNCHANGED <<clock, ticks, rate_limits, blocked_users, security_logs, last_activity, calls, hmac, users, fsm, timeline, tasks>>

\* The run of calls the caller sees: a call within window seconds of the run's
\* first call continues it, any later call begins a new run.
NoteCall(key, window) ==
    [calls EXCEPT ![key] =
        IF @.n > 0 /\ clock - @.first <= window
        THEN [@ EXCEPT !.n = @ + 1]
        ELSE [first |-> clock, n |-> 1, ok |-> 0]]

\* One more call of the run was answered allowed
NoteAnswer(log, key, allowed) ==
    [log EXCEPT ![key].ok = IF allowed THEN @ + 1 ELSE @]

\* A gate that replies to a rate-limited message and lets it through
AfterRateNoCancel(me, allowed) ==
    IF me.op = "check"
    THEN [me EXCEPT !.result = IF allowed THEN "allowed" ELSE "denied", !.pc = "ret"]
    ELSE IF allowed
    THEN [me EXCEPT !.pc = "g_content"]
    ELSE [me EXCEPT !.out = @ \o <<Message(me.user, "rate_notice", NoReason)>>,
                    !.pc = "g_content"]

\* A gate that blocks the user for a day when the limit is exceeded
AfterRateBlocking(me, allowed) ==
    IF me.op = "check"
    THEN [me EXCEPT !.result = IF allowed THEN "allowed" ELSE "denied", !.pc = "ret"]
    ELSE IF allowed
    THEN [me EXCEPT !.pc = "g_content"]
    ELSE [me EXCEPT !.out = @ \o <<Message(me.user, "rate_notice", NoReason)>>,
                    !.admin = None, !.duration = AUTO_BLOCK_DAYS,
                    !.result = "rate_limited", !.pc = "bl_find"]

\* Where check_rate_limit's result takes its caller: a direct call returns it,
\* the gate goes on to the content step or replies and cancels the handler
AfterRate(me, allowed) ==
    IF me.op = "check"
    THEN [me EXCEPT !.result = IF allowed THEN "allowed" ELSE "denied", !.pc = "ret"]
    ELSE IF allowed
    THEN [me EXCEPT !.pc = "g_content"]
    ELSE [me EXCEPT !.out = @ \o <<Message(me.user, "rate_notice", NoReason)>>,
                    !.result = "rate_limited", !.pc = "ret"]

\* check_rate_limit up to the await of find_one: now is read, the document fetched
RateFind(p) ==
    /\ proc[p].pc = "rl_find"
    /\ proc' = [proc EXCEPT ![p] =
          IF RATE_LIMIT_ENABLED
          THEN [@ EXCEPT !.now = clock,
                         !.rate_data = FindOne(rate_limits,
                                              WithKey(rate_limits, RateKey(proc[p].user, proc[p].action))),
                         !.stages = Append(@, "rate"),
                         !.pc = "rl_write"]
          ELSE AfterRate([@ EXCEPT !.stages = Append(@, "rate")], TRUE)]
    /\ calls' = LET key == RateKey(proc[p].user, proc[p].action)
                 IN  IF RATE_LIMIT_ENABLED THEN NoteCall(key, proc[p].window)
                     ELSE NoteAnswer(NoteCall(key, proc[p].window), key, TRUE)
    /\ UNCHANGED <<clock, ticks, rate_limits, blocked_users, security_logs, last_activity, hmac, users, fsm, timeline, tasks>>

\* A window test that restarts the window at every later call
WindowExpiredAtOnce(window_start, now, window) == window_start < now

\* The window test of check_rate_limit: rate_data["window_start"] < now - window
WindowExpired(window_start, now, window) == window_start < now - window

\* A limit test that denies the call that reaches the limit
LimitExceededAtLimit(new_count, limit) == new_count >= limit

\* The limit test of check_rate_limit: new_count > limit
LimitExceeded(new_count, limit) == new_count > limit

\* An alert test that fires on every denied call
AlertDueAtLimit(new_count, limit) == new_count > limit

\* The alert test of check_rate_limit: new_count > limit * 2
AlertDue(new_count, limit) == new_count > limit * 2

\* A write whose increment also moves window_start to now
RateWrittenSliding(coll, key, rate_data, now, window) ==
    IF rate_data = <<>>
    THEN Append(coll, [key |-> key, count |-> 1, window_start |-> now, last_action |-> now])
    ELSE IF WindowExpired(rate_data[1].window_start, now, window)
    THEN UpdateOne(coll, WithKey(coll, key),
                   [count |-> 1, window_start |-> now, last_action |-> now])
    ELSE UpdateOne(coll, WithKey(coll, key),
                   [count |-> rate_data[1].count + 1, window_start |-> now,
                    last_action |-> now])

\* What check_rate_limit writes after find_one returned rate_data, read at now
RateWritten(coll, key, rate_data, now, window) ==
    IF rate_data = <<>>
    THEN Append(coll, [key |-> key, count |-> 1, window_start |-> now, last_action |-> now])
    ELSE IF WindowExpired(rate_data[1].window_start, now, window)
    THEN UpdateOne(coll, WithKey(coll, key),
                   [count |-> 1, window_start |-> now, last_action |-> now])
    ELSE UpdateOne(coll, WithKey(coll, key),
                   [count |-> rate_data[1].count + 1, last_action |-> now])

\* The count check_rate_limit compares with the limit (0: it returned before)
NewCount(rate_data, now, window) ==
    IF rate_data = <<>> \/ WindowExpired(rate_data[1].window_start, now, window)
    THEN 0 ELSE rate_data[1].count + 1

\* One more call on the timeline, when one is kept
NoteSpan(line, now, restarted, allowed) ==
    IF line.on
    THEN [line EXCEPT !.calls = Append(@, [time |-> now, restarted |-> restarted,
                                          allowed |-> allowed])]
    ELSE line

\* check_rate_limit from the write to its return
RateWrite(p) ==
    /\ proc[p].pc = "rl_write"
    /\ LET me == proc[p]
           key == RateKey(me.user, me.action)
           new_count == NewCount(me.rate_data, me.now, me.window)
           exceeded == LimitExceeded(new_count, me.limit)
           alerts == IF exceeded /\ AlertDue(new_count, me.limit)
                     THEN send_admin_alert("rate_alert", NoReason) ELSE <<>>
       IN  /\ rate_limits' = RateWritten(rate_limits, key, me.rate_data, me.now, me.window)
           /\ security_logs' =
                 IF exceeded
                 THEN log_security_event(security_logs, "rate_limit_exceeded", me.user,
                          [action_type |-> me.action, limit |-> me.limit,
                           window_seconds |-> me.window, count |-> new_count],
                          "warning", clock)
                 ELSE security_logs
           /\ proc' = [proc EXCEPT ![p] =
                 AfterRate([me EXCEPT !.out = @ \o alerts, !.found = new_count],
                           ~exceeded)]
           /\ calls' = NoteAnswer(calls, key, ~exceeded)
           /\ timeline' = NoteSpan(timeline, me.now,
                                   me.rate_data /= <<>>
                                   /\ WindowExpired(me.rate_data[1].window_start, me.now, me.window),
                                   ~exceeded)
    /\ UNCHANGED <<clock, ticks, blocked_users, last_activity, hmac, users, fsm, tasks>>

\* ---------------------------------------------------------- block registry
\* A lookup that takes a block whose expiry has passed for no block
is_user_blockedUntilExpiry(user) ==
    \E i \in WithUser(blocked_users, user) :
        blocked_users[i].expiry = None \/ blocked_users[i].expiry >= clock

\* SecurityManager.is_user_blocked
is_user_blocked(user) == FindOne(blocked_users, WithUser(blocked_users, user)) /= <<>>

\* A call block_user(user_id, reason, admin_id, duration_days)
StartBlock(p, user, reason, admin, duration, room) ==
    /\ IsIdle(p)
    /\ LogRoom(1, room)
    /\ proc' = [proc EXCEPT ![p] =
                  Begin([Idle EXCEPT !.op = "block", !.pc = "bl_find", !.user = user,
                               !.reason = reason, !.admin = admin, !.duration = duration])]
    /\ UNCHANGED <<clock, ticks, rate_limits, blocked_users, security_logs, last_activity, calls, hmac, users, fsm, timeline, tasks>>

\* block_user up to the await of find_one: now is read, the existing block looked up
BlockFind(p) ==
    /\ proc[p].pc = "bl_find"
    /\ proc' = [proc EXCEPT ![p].now = clock,
                            ![p].existing = is_user_blocked(proc[p].user),
                            ![p].pc = "bl_write"]
    /\ UNCHANGED <<clock, ticks, rate_limits, blocked_users, security_logs, last_activity, calls, hmac, users, fsm, timeline, tasks>>

\* expiry = now + timedelta(days=duration_days) if duration_days else None
Expiry(now, duration) ==
    IF Truthy(duration) THEN now + duration * SECONDS_PER_DAY ELSE None

BlockData(me) ==
    [user_id |-> me.user, reason |-> me.reason, blocked_at |-> me.now,
     blocked_by |-> me.admin, expiry |-> Expiry(me.now, me.duration)]

\* What block_user writes after find_one returned existing
BlockWritten(coll, me) ==
    IF me.existing
    THEN UpdateOne(coll, WithUser(coll, me.user), BlockData(me))
    ELSE Append(coll, BlockData(me))

\* The messages block_user sends: the admins' alert, then the user's notice
BlockMessages(me) ==
    send_admin_alert("block_alert", me.reason)
    \o <<Message(me.user, "block_notice", me.reason)>>

\* block_user from the write to its return
BlockWrite(p) ==
    /\ proc[p].pc = "bl_write"
    /\ LET me == proc[p]
       IN  /\ blocked_users' = BlockWritten(blocked_users, me)
           /\ security_logs' =
                 log_security_event(security_logs, "user_blocked", me.user,
                     [reason |-> me.reason, admin_id |-> me.admin,
                      duration_days |-> me.duration],
                     "warning", clock)
           /\ proc' = [proc EXCEPT ![p] =
                 [me EXCEPT !.out = @ \o BlockMessages(me),
                            !.existing = FALSE,
                            !.result = IF me.op = "block" THEN "true" ELSE @,
                            !.pc = IF me.op = "block" THEN "ret" ELSE "g_threat"]]
    /\ UNCHANGED <<clock, ticks, rate_limits, last_activity, calls, hmac, users, fsm, timeline, tasks>>

\* A call unblock_user(user_id, admin_id)
StartUnblock(p, user, admin, room) ==
    /\ IsIdle(p)
    /\ LogRoom(1, room)
    /\ proc' = [proc EXCEPT ![p] =
                  Begin([Idle EXCEPT !.op = "unblock", !.pc = "ub", !.user = user, !.admin = admin])]
    /\ UNCHANGED <<clock, ticks, rate_limits, blocked_users, security_logs, last_activity, calls, hmac, users, fsm, timeline, tasks>>

\* The messages unblock_user sends: the admins' alert, then the user's notice
UnblockMessages(user) ==
    send_admin_alert("unblock_alert", NoReason)
    \o <<Message(user, "unblock_notice", NoReason)>>

\* unblock_user, called by an operator or by cleanup_expired_blocks for the
\* next block of its list
Unblock(p) ==
    /\ proc[p].pc = "ub"
    /\ LET me == proc[p]
           sweep == me.op = "sweep"
           user == IF sweep THEN Head(me.expired) ELSE me.user
           admin == IF sweep THEN None ELSE me.admin
           deleted == DeletedCount(blocked_users, WithUser(blocked_users, user)) /= 0
           left == IF sweep THEN Tail(me.expired) ELSE <<>>
       IN  /\ blocked_users' = DeleteOne(blocked_users, WithUser(blocked_users, user))
           /\ security_logs' =
                 IF deleted
                 THEN log_security_event(security_logs, "user_unblocked", user,
                                         [admin_id |-> admin], "info", clock)
                 ELSE security_logs
           /\ proc' = [proc EXCEPT ![p] =
                 [me EXCEPT !.out = @ \o (IF deleted THEN UnblockMessages(user) ELSE <<>>),
                            !.expired = left,
                            !.result = IF sweep THEN (IF left = <<>> THEN "swept" ELSE @)
                                       ELSE IF deleted THEN "true" ELSE "false",
                            !.pc = IF left = <<>> THEN "ret" ELSE "ub"]]
    /\ UNCHANGED <<clock, ticks, rate_limits, last_activity, calls, hmac, users, fsm, timeline, tasks>>

\* A query with the comparison turned round: {"expiry": {"$gt": now, "$ne": None}}
IsExpiredGreater(doc, now) == doc.expiry /= None /\ doc.expiry > now

\* A query without the test for None: {"expiry": {"$lt": now}}
IsExpiredOrPermanent(doc, now) == doc.expiry < now

\* The query of cleanup_expired_blocks: {"expiry": {"$lt": now, "$ne": None}}
IsExpired(doc, now) == doc.expiry /= None /\ doc.expiry < now

\* The user ids of the expired blocks, in the collection's order
RECURSIVE ExpiredUsers(_, _)
ExpiredUsers(coll, now) ==
    IF coll = <<>> THEN <<>>
    ELSE (IF IsExpired(Head(coll), now) THEN <<Head(coll).user_id>> ELSE <<>>)
         \o ExpiredUsers(Tail(coll), now)

\* A run of cleanup_expired_blocks, when the audit log has room for the
\* entries of the blocks it will remove
StartSweep(p, room) ==
    /\ IsIdle(p)
    /\ LogRoom(Len(ExpiredUsers(blocked_users, clock)), room)
    /\ proc' = [proc EXCEPT ![p] = Begin([Idle EXCEPT !.op = "sweep", !.pc = "sw_find"])]
    /\ UNCHANGED <<clock, ticks, rate_limits, blocked_users, security_logs, last_activity, calls, hmac, users, fsm, timeline, tasks>>

\* cleanup_expired_blocks up to the await of find(...).to_list
SweepFind(p) ==
    /\ proc[p].pc = "sw_find"
    /\ LET expired == ExpiredUsers(blocked_users, clock)
       IN  proc' = [proc EXCEPT ![p].now = clock,
                                ![p].expired = expired,
                                ![p].found = Len(expired),
                                ![p].result = IF expired = <<>> THEN "swept" ELSE @,
                                ![p].pc = IF expired = <<>> THEN "ret" ELSE "ub"]
    /\ UNCHANGED <<clock, ticks, rate_limits, blocked_users, security_logs, last_activity, calls, hmac, users, fsm, timeline, tasks>>

\* -------------------------------------------------------------------- gate
\* The reason the gate gives process_suspicious_message, and block_user after it
AttackReason(pattern) ==
    [parts |-> <<"Automated block", "Multiple suspicious messages",
                 "Potential attack pattern detected">>,
     pattern |-> pattern]

\* A count of the recent suspicious_message entries of every user
RecentSuspiciousOfAny(logs, user, now) ==
    LET recent == {e \in BagToSet(logs) :
                      /\ e.event_type = "suspicious_message"
                      /\ e.timestamp > now - SUSPICIOUS_HOURS * SECONDS_PER_HOUR}
        RECURSIVE Sum(_)
        Sum(S) == IF S = {} THEN 0
                  ELSE LET e == CHOOSE x \in S : TRUE
                       IN  CopiesIn(e, logs) + Sum(S \ {e})
    IN  Sum(recent)

\* A count of the user's suspicious_message entries of any age
RecentSuspiciousEver(logs, user, now) ==
    LET all == {e \in BagToSet(logs) :
                   e.event_type = "suspicious_message" /\ e.user_id = user}
        RECURSIVE Sum(_)
        Sum(S) == IF S = {} THEN 0
                  ELSE LET e == CHOOSE x \in S : TRUE
                       IN  CopiesIn(e, logs) + Sum(S \ {e})
    IN  Sum(all)

\* count_documents of process_suspicious_message: the user's suspicious_message
\* entries with timestamp > now - 24 hours
RecentSuspicious(logs, user, now) ==
    LET recent == {e \in BagToSet(logs) :
                      /\ e.event_type = "suspicious_message"
                      /\ e.user_id = user
                      /\ e.timestamp > now - SUSPICIOUS_HOURS * SECONDS_PER_HOUR}
        RECURSIVE Sum(_)
        Sum(S) == IF S = {} THEN 0
                  ELSE LET e == CHOOSE x \in S : TRUE
                       IN  CopiesIn(e, logs) + Sum(S \ {e})
    IN  Sum(recent)

\* The audit entries one message may add: the blocked attempt, the exceeded
\* limit or the suspicious message, and the block that follows the third one
GateWrites(user) ==
    IF RecentSuspicious(security_logs, user, clock) + 1 >= SUSPICIOUS_THRESHOLD
    THEN 2 ELSE 1

\* SecurityMiddleware.on_pre_process_message for a message of user with text;
\* no further message starts once the stored count reached cap
StartGateMessage(p, user, text, cap, room) ==
    /\ IsIdle(p)
    /\ StoredCount(user, "message") < cap
    /\ LogRoom(GateWrites(user), room)
    /\ proc' = [proc EXCEPT ![p] =
                  Begin([Idle EXCEPT !.op = "gate_message", !.pc = "g_block", !.user = user,
                               !.text = text, !.action = "message",
                               !.limit = MESSAGE_LIMIT, !.window = MESSAGE_WINDOW])]
    /\ UNCHANGED <<clock, ticks, rate_limits, blocked_users, security_logs, last_activity, calls, hmac, users, fsm, timeline, tasks>>

\* SecurityMiddleware.on_pre_process_callback_query for a callback of user
StartGateCallback(p, user, data, cap, room) ==
    /\ IsIdle(p)
    /\ StoredCount(user, "callback") < cap
    /\ LogRoom(1, room)
    /\ proc' = [proc EXCEPT ![p] =
                  Begin([Idle EXCEPT !.op = "gate_callback", !.pc = "g_block", !.user = user,
                               !.text = data, !.action = "callback",
                               !.limit = CALLBACK_LIMIT, !.window = CALLBACK_WINDOW])]
    /\ UNCHANGED <<clock, ticks, rate_limits, blocked_users, security_logs, last_activity, calls, hmac, users, fsm, timeline, tasks>>

\* The gate's first step: is_user_blocked, and for a blocked user the logged
\* attempt, the notice and CancelHandler
GateBlockCheck(p) ==
    /\ proc[p].pc = "g_block"
    /\ LET me == proc[p]
           blocked == is_user_blocked(me.user)
       IN  /\ security_logs' =
                 IF ~blocked THEN security_logs
                 ELSE IF me.op = "gate_message"
                 THEN log_security_event(security_logs, "blocked_user_attempt", me.user,
                                         [text |-> me.text], "info", clock)
                 ELSE log_security_event(security_logs, "blocked_user_callback_attempt",
                                         me.user, [text |-> me.text], "info", clock)
           /\ proc' = [proc EXCEPT ![p] =
                 IF blocked
                 THEN [me EXCEPT !.stages = Append(@, "block"),
                                 !.out = @ \o <<Message(me.user, "blocked_notice", NoReason)>>,
                                 !.result = "blocked", !.pc = "ret"]
                 ELSE [me EXCEPT !.stages = Append(@, "block"), !.pc = "rl_find"]]
    /\ UNCHANGED <<clock, ticks, rate_limits, blocked_users, last_activity, calls, hmac, users, fsm, timeline, tasks>>

\* A gate that scans the data of callbacks as it scans the text of messages
ScannedAlways(me) == me.text /= <<>>

\* `if message.text:` of on_pre_process_message; on_pre_process_callback_query
\* has no such step
Scanned(me) == me.op = "gate_message" /\ me.text /= <<>>

\* The gate's content step. A message with text is scanned; on a match
\* process_suspicious_message logs it and counts the recent ones. Otherwise the
\* user's last_activity is updated and the event is allowed.
GateContent(p) ==
    /\ proc[p].pc = "g_content"
    /\ LET me == proc[p]
           scan == Scanned(me)
           hit == IF scan THEN detect_potential_attack(me.text)
                  ELSE [is_attack |-> FALSE, pattern |-> <<>>]
           reason == AttackReason(hit.pattern)
           logged == log_security_event(security_logs, "suspicious_message", me.user,
                                        [text |-> me.text, reason |-> reason],
                                        "warning", clock)
           recent == RecentSuspicious(logged, me.user, clock)
           stages == IF scan THEN Append(me.stages, "scan") ELSE me.stages
       IN  IF hit.is_attack
           THEN /\ security_logs' = logged
                /\ proc' = [proc EXCEPT ![p] =
                      [me EXCEPT !.stages = stages, !.reason = reason, !.recent = recent,
                                 !.admin = None, !.duration = AUTO_BLOCK_DAYS,
                                 !.pc = IF recent >= SUSPICIOUS_THRESHOLD
                                        THEN "bl_find" ELSE "g_threat"]]
                /\ UNCHANGED last_activity
           ELSE /\ last_activity' = [last_activity EXCEPT ![me.user] = clock]
                /\ proc' = [proc EXCEPT ![p] =
                      [me EXCEPT !.stages = stages, !.result = "Allowed", !.pc = "ret"]]
                /\ UNCHANGED security_logs
    /\ UNCHANGED <<clock, ticks, rate_limits, blocked_users, calls, hmac, users, fsm, timeline, tasks>>

\* The end of the threat path: the admins' alert of process_suspicious_message,
\* then the gate's reply and CancelHandler
GateThreat(p) ==
    /\ proc[p].pc = "g_threat"
    /\ proc' = [proc EXCEPT ![p] =
          [@ EXCEPT !.out = @ \o send_admin_alert("suspicious_alert", proc[p].reason)
                              \o <<Message(proc[p].user, "harmful_notice", NoReason)>>,
                    !.result = "attack_pattern", !.pc = "ret"]]
    /\ UNCHANGED <<clock, ticks, rate_limits, blocked_users, security_logs, last_activity, calls, hmac, users, fsm, timeline, tasks>>

\* ------------------------------------------------------ persistence errors
\* One more persistence error was raised in the run, and logs of them were
\* written by logger.error
Faulted(me, logs) == [me EXCEPT !.faults = @ + 1, !.logged = @ + logs]

\* is_user_blocked when find_one raises: the error is logged, the answer is False
FailBlockCheck(p) ==
    /\ proc[p].pc = "g_block"
    /\ proc' = [proc EXCEPT ![p] =
          Faulted([@ EXCEPT !.stages = Append(@, "block"), !.pc = "rl_find"], 1)]
    /\ UNCHANGED <<clock, ticks, rate_limits, blocked_users, security_logs, last_activity, calls, hmac, users, fsm, timeline, tasks>>

\* check_rate_limit when find_one raises: the error is logged, the answer is True
FailRateFind(p) ==
    /\ proc[p].pc = "rl_find"
    /\ RATE_LIMIT_ENABLED
    /\ proc' = [proc EXCEPT ![p] =
          AfterRate(Faulted([@ EXCEPT !.now = clock, !.stages = Append(@, "rate")], 1), TRUE)]
    /\ calls' = LET key == RateKey(proc[p].user, proc[p].action)
                 IN  NoteAnswer(NoteCall(key, proc[p].window), key, TRUE)
    /\ UNCHANGED <<clock, ticks, rate_limits, blocked_users, security_logs, last_activity, hmac, users, fsm, timeline, tasks>>

\* check_rate_limit when its insert_one or update_one raises: nothing is
\* written, the error is logged, the answer is True
FailRateWrite(p) ==
    /\ proc[p].pc = "rl_write"
    /\ proc' = [proc EXCEPT ![p] = AfterRate(Faulted(@, 1), TRUE)]
    /\ calls' = NoteAnswer(calls, RateKey(proc[p].user, proc[p].action), TRUE)
    /\ UNCHANGED <<clock, ticks, rate_limits, blocked_users, security_logs, last_activity, hmac, users, fsm, timeline, tasks>>

\* The content step when the insert_one of log_security_event raises: the
\* error is logged there, and process_suspicious_message counts without the entry
FailAuditWrite(p) ==
    /\ proc[p].pc = "g_content"
    /\ proc[p].op = "gate_message" /\ proc[p].text /= <<>>
    /\ detect_potential_attack(proc[p].text).is_attack
    /\ LET me == proc[p]
           reason == AttackReason(detect_potential_attack(me.text).pattern)
           recent == RecentSuspicious(security_logs, me.user, clock)
       IN  proc' = [proc EXCEPT ![p] =
              Faulted([me EXCEPT !.stages = Append(@, "scan"), !.reason = reason,
                                 !.recent = recent,
                                 !.admin = None, !.duration = AUTO_BLOCK_DAYS,
                                 !.pc = IF recent >= SUSPICIOUS_THRESHOLD
                                        THEN "bl_find" ELSE "g_threat"], 1)]
    /\ UNCHANGED <<clock, ticks, rate_limits, blocked_users, security_logs, last_activity, calls, hmac, users, fsm, timeline, tasks>>

\* The content step when count_documents raises: the entry is written, and the
\* exception leaves process_suspicious_message and on_pre_process_message
FailRecentCount(p) ==
    /\ proc[p].pc = "g_content"
    /\ proc[p].op = "gate_message" /\ proc[p].text /= <<>>
    /\ detect_potential_attack(proc[p].text).is_attack
    /\ LET me == proc[p]
           reason == AttackReason(detect_potential_attack(me.text).pattern)
       IN  /\ security_logs' =
                 log_security_event(security_logs, "suspicious_message", me.user,
                                    [text |-> me.text, reason |-> reason], "warning", clock)
           /\ proc' = [proc EXCEPT ![p] =
                 Faulted([me EXCEPT !.stages = Append(@, "scan"), !.reason = reason,
                                    !.result = "raised", !.pc = "ret"], 0)]
    /\ UNCHANGED <<clock, ticks, rate_limits, blocked_users, last_activity, calls, hmac, users, fsm, timeline, tasks>>

\* Where block_user's except branch takes its caller: the error is logged and
\* False returned, which process_suspicious_message ignores
AfterBlockError(me) ==
    Faulted([me EXCEPT !.now = clock,
                       !.result = IF me.op = "block" THEN "false" ELSE @,
                       !.pc = IF me.op = "block" THEN "ret" ELSE "g_threat"], 1)

\* block_user when its find_one, or its update_one or insert_one, raises:
\* nothing is written
FailBlock(p) ==
    /\ proc[p].pc \in {"bl_find", "bl_write"}
    /\ proc' = [proc EXCEPT ![p] = AfterBlockError(@)]
    /\ UNCHANGED <<clock, ticks, rate_limits, blocked_users, security_logs, last_activity, calls, hmac, users, fsm, timeline, tasks>>

\* A gate whose failed update of last_activity leaves the handler as an error
AfterActivityErrorRaising(me) ==
    Faulted([me EXCEPT !.result = "raised", !.pc = "ret"], 0)

\* Where the except branch around the update of last_activity takes the gate:
\* the error is logged and the handler returns normally
AfterActivityError(me) ==
    Faulted([me EXCEPT !.result = "Allowed", !.pc = "ret"], 1)

\* The content step of an event that passed every check, when the update_one
\* of the user's last_activity raises: nothing is written
FailActivity(p) ==
    /\ proc[p].pc = "g_content"
    /\ LET me == proc[p]
           scan == Scanned(me)
       IN  /\ ~(scan /\ detect_potential_attack(me.text).is_attack)
           /\ proc' = [proc EXCEPT ![p] =
                 AfterActivityError([me EXCEPT !.stages = IF scan THEN Append(@, "scan") ELSE @])]
    /\ UNCHANGED <<clock, ticks, rate_limits, blocked_users, security_logs, last_activity, calls, hmac, users, fsm, timeline, tasks>>

\* block_user when the find_one on users that follows the write raises: the
\* block and its audit entry are stored, nothing is sent, and the outer except
\* branch answers
FailUserLookup(p) ==
    /\ proc[p].pc = "bl_write"
    /\ LET me == proc[p]
       IN  /\ blocked_users' = BlockWritten(blocked_users, me)
           /\ security_logs' =
                 log_security_event(security_logs, "user_blocked", me.user,
                     [reason |-> me.reason, admin_id |-> me.admin,
                      duration_days |-> me.duration],
                     "warning", clock)
           /\ proc' = [proc EXCEPT ![p] = AfterBlockError([me EXCEPT !.existing = FALSE])]
    /\ UNCHANGED <<clock, ticks, rate_limits, last_activity, calls, hmac, users, fsm, timeline, tasks>>

\* A message to the gate while the run of calls the caller sees is below runs
StartFaultyGate(p, user, text, runs) ==
    /\ calls[RateKey(user, "message")].n < runs
    /\ StartGateMessage(p, user, text, GateCount, GateLog)

\* --------------------------------------------------------- signing utility
\* Strings are sequences of characters here. hexdigest() gives lower-case hex
\* digits; a signature handed to verify_hmac is any string.
HexDigits == {"0", "f"}
AsciiChars == HexDigits \cup {"F", "x"}
Data == {<<"a">>, <<"b">>, <<"a", "b">>}
Digests == {<<"0", "0">>, <<"0", "f">>, <<"f", "f">>}
Signatures == Digests \cup {<<"0">>, <<"0", "F">>, <<"0", "\\u00e9">>, <<>>}

IsAscii(str) == \A i \in 1..Len(str) : str[i] \in AsciiChars

\* SecurityManager.generate_hmac: hmac.new(key, message, sha256).hexdigest(),
\* a function of the data under the one SECURITY_SECRET of the process
generate_hmac(data) == hmac.digest[data]

\* hmac.compare_digest on two str: TypeError unless both are ASCII
compare_digest(a, b) ==
    IF ~IsAscii(a) \/ ~IsAscii(b) THEN "TypeError"
    ELSE IF a = b THEN "true" ELSE "false"

\* SecurityManager.verify_hmac
verify_hmac(data, signature) == compare_digest(generate_hmac(data), signature)

\* A call generate_hmac(data), whose signature is then verified
SignAndVerify(data) ==
    /\ hmac' = [hmac EXCEPT !.data = data, !.signature = generate_hmac(data),
                            !.result = verify_hmac(data, generate_hmac(data))]
    /\ UNCHANGED <<clock, ticks, rate_limits, blocked_users, security_logs, last_activity, proc, calls, users, fsm, timeline, tasks>>

\* A call verify_hmac(data, signature) with a signature from anywhere
Verify(data, signature) ==
    /\ hmac' = [hmac EXCEPT !.data = data, !.signature = signature,
                            !.result = verify_hmac(data, signature)]
    /\ UNCHANGED <<clock, ticks, rate_limits, blocked_users, security_logs, last_activity, proc, calls, users, fsm, timeline, tasks>>

\* ------------------------------------------------------- the pure functions
\* All sequences over S of length at most n
SeqsUpTo(S, n) == UNION {[1..k -> S] : k \in 0..n}

Range(seq) == {seq[i] : i \in 1..Len(seq)}

\* RANKS of the bot: the ranks its registration keyboard offers
RANKS ==
    << <<"3", "0", "k">>, <<"2", "9", "k">>, <<"2", "8", "k">>, <<"2", "7", "k">>, <<"2", "6", "k">>,
       <<"2", "5", "k">>, <<"2", "4", "k">>, <<"2", "3", "k">>, <<"2", "2", "k">>, <<"2", "1", "k">>,
       <<"2", "0", "k">>, <<"1", "9", "k">>, <<"1", "8", "k">>, <<"1", "7", "k">>, <<"1", "6", "k">>,
       <<"1", "5", "k">>, <<"1", "4", "k">>, <<"1", "3", "k">>, <<"1", "2", "k">>, <<"1", "1", "k">>,
       <<"1", "0", "k">>, <<"9", "k">>, <<"8", "k">>, <<"7", "k">>, <<"6", "k">>,
       <<"5", "k">>, <<"4", "k">>, <<"3", "k">>, <<"2", "k">>, <<"1", "k">>,
       <<"1", "d">>, <<"2", "d">>, <<"3", "d">>, <<"4", "d">>, <<"5", "d">>,
       <<"6", "d">>, <<"7", "d">>, <<"8", "d">>, <<"9", "d">> >>

\* The texts given to validate_input: every short text over the characters of
\* a rank, the bot's ranks, dates and near-dates, and a few of every other kind
RankChars == {"0", "1", "3", "4", "k", "d", "\n"}

DateValues ==
    {y \o s1 \o m \o s2 \o d \o e :
        y \in {<<"2", "0", "2", "5">>, <<"1", "5">>, <<"2", "0", "\\u0663", "5">>,
               <<"2", "o", "2", "5">>},
        s1 \in {<<"-">>, <<"/">>},
        m \in {<<"0", "3">>, <<"3">>},
        s2 \in {<<"-">>, <<":">>},
        d \in {<<"1", "5">>, <<"2", "0", "2", "5">>, <<"1", "a">>},
        e \in {<<>>, <<"\n">>, <<" ">>}}

OtherValues ==
    {<<"J", "o">>, <<"J">>, <<"J", "o", " ", "D", "o">>, <<"<", "b", ">">>,
     <<"p", "1", "x">>, <<"p", "@", "x", "x">>,
     <<"1", "0", ":", "3", "0">>, <<"1", "0", "-", "3", "0">>,
     <<"h", "t", "t", "p", ":", "/", "/", "a">>,
     <<"h", "t", "t", "p", "s", ":", "/", "/", "a", "\n">>,
     <<"h", "t", "t", "p", ":", "/", "/">>,
     <<"f", "t", "p", ":", "/", "/", "a">>}

ValidateValues ==
    {NoValue} \cup {Str(t) : t \in SeqsUpTo(RankChars, RankLen) \cup Range(RANKS)
                                  \cup DateValues \cup OtherValues}

\* The input types asked for: the six with a pattern and one without
ValidateTypes == PatternTypes \cup {"comment"}

\* A call validate_input(input_type, value), for any of the types and values
Validate(p) ==
    /\ IsIdle(p)
    /\ \E input_type \in ValidateTypes, value \in ValidateValues :
          proc' = [proc EXCEPT ![p] =
                     [Idle EXCEPT !.op = "validate", !.pc = "ret", !.action = input_type,
                                  !.text = value,
                                  !.result = IF validate_input(input_type, value)
                                             THEN "true" ELSE "false"]]
    /\ UNCHANGED <<clock, ticks, rate_limits, blocked_users, security_logs, last_activity, calls, hmac, users, fsm, timeline, tasks>>

\* The texts given to detect_potential_attack: the four examples and every
\* short text over the tokens the signatures look for
ScanTokens ==
    {"<script", ">", "</script>", "javascript:", "onload=", "%22%3E", "%3Cscript",
     "'", "OR", "=", " ", "SELECT", "FROM", "hi"}

ScanTexts ==
    {Hello, ScriptTag, JavascriptUri, SqlBoolean} \cup SeqsUpTo(ScanTokens, ScanLen)

\* A call detect_potential_attack(value), for any of the texts
Scan(p) ==
    /\ IsIdle(p)
    /\ \E value \in ScanTexts :
          LET found == detect_potential_attack(value)
          IN  proc' = [proc EXCEPT ![p] =
                         [Idle EXCEPT !.op = "scan", !.pc = "ret", !.text = value,
                                      !.reason = [parts |-> <<>>, pattern |-> found.pattern],
                                      !.result = IF found.is_attack THEN "matched" ELSE "clean"]]
    /\ UNCHANGED <<clock, ticks, rate_limits, blocked_users, security_logs, last_activity, calls, hmac, users, fsm, timeline, tasks>>

\* ---------------------------------------------------------------- the bot
\* MENTOR_MINIMUM_RANK
MENTOR_MINIMUM_RANK == <<"3", "k">>

\* get_rank_index: RANKS.index(rank), or -1
get_rank_index(rank) ==
    LET at == {i \in 1..Len(RANKS) : RANKS[i] = rank}
    IN  IF at = {} THEN -1 ELSE Min(at) - 1

is_rank_sufficient_for_mentor(rank) ==
    get_rank_index(rank) >= get_rank_index(MENTOR_MINIMUM_RANK)

\* str.split(sep): the parts of s between the separators
RECURSIVE Split(_, _)
Split(s, sep) ==
    LET at == {i \in 1..Len(s) : s[i] = sep}
    IN  IF at = {} THEN <<s>>
        ELSE <<SubSeq(s, 1, Min(at) - 1)>> \o Split(SubSeq(s, Min(at) + 1, Len(s)), sep)

\* str.strip(): s without the white space at its ends
RECURSIVE Strip(_)
Strip(s) ==
    IF s = <<>> THEN s
    ELSE IF Head(s) \in WhiteSpace THEN Strip(Tail(s))
    ELSE IF s[Len(s)] \in WhiteSpace THEN Strip(SubSeq(s, 1, Len(s) - 1))
    ELSE s

\* str.lower(), on the letters the texts of the model use
UpperCase == <<"N", "O", "E", "P", "X">>
LowerCase == <<"n", "o", "e", "p", "x">>

Lower(s) ==
    [i \in 1..Len(s) |->
        IF \E k \in 1..Len(UpperCase) : UpperCase[k] = s[i]
        THEN LowerCase[CHOOSE k \in 1..Len(UpperCase) : UpperCase[k] = s[i]]
        ELSE s[i]]

\* A filter that matches every document
WithTelegramIdOfAny(coll, id) == 1..Len(coll)

\* The filter {"telegram_id": id}
WithTelegramId(coll, id) == {i \in 1..Len(coll) : coll[i].telegram_id = id}

\* A step that goes from the name state past the rank state
NextStateSkipping(state) ==
    IF state = "name" THEN "ogs_username"
    ELSE IF state = "rank" THEN "ogs_username"
    ELSE "none"

\* RegistrationForm.next(): the state after state in the group, none after the last
NextState(state) ==
    IF state = "name" THEN "rank"
    ELSE IF state = "rank" THEN "ogs_username"
    ELSE "none"

\* The conversations in progress
Open == {a \in Actors : fsm[a].state /= "none"}

\* cmd_start: a handler of the default state
CmdStart(p, user) ==
    /\ IsIdle(p)
    /\ fsm[user].state = "none"
    /\ LET found == FindOne(users, WithTelegramId(users, user))
       IN  proc' = [proc EXCEPT ![p] =
                      [Idle EXCEPT !.op = "cmd_start", !.pc = "ret", !.user = user,
                                   !.users0 = users,
                                   !.out = <<Message(user, IF found = <<>> THEN "register_prompt"
                                                           ELSE "welcome_back", NoReason)>>]]
    /\ UNCHANGED <<clock, ticks, rate_limits, blocked_users, security_logs, last_activity, calls, hmac, users, fsm, timeline, tasks>>

\* cmd_register: a handler of the default state; it opens the conversation
CmdRegister(p, user, max) ==
    /\ IsIdle(p)
    /\ fsm[user].state = "none"
    /\ Len(users) + Cardinality(Open) < max
    /\ fsm' = [fsm EXCEPT ![user].state = "name"]
    /\ proc' = [proc EXCEPT ![p] =
                  [Idle EXCEPT !.op = "cmd_register", !.pc = "ret", !.user = user,
                               !.users0 = users,
                               !.out = <<Message(user, "ask_name", NoReason)>>]]
    /\ UNCHANGED <<clock, ticks, rate_limits, blocked_users, security_logs, last_activity, calls, hmac, users, timeline, tasks>>

\* process_name: the handler of any text in the name state
ProcessName(p, user, text) ==
    /\ IsIdle(p)
    /\ fsm[user].state = "name"
    /\ fsm' = [fsm EXCEPT ![user].data.name = text, ![user].state = NextState(@)]
    /\ proc' = [proc EXCEPT ![p] =
                  [Idle EXCEPT !.op = "process_name", !.pc = "ret", !.user = user,
                               !.text = text, !.users0 = users,
                               !.data = [fsm[user].data EXCEPT !.name = text],
                               !.out = <<Message(user, "rank_keyboard", NoReason)>>]]
    /\ UNCHANGED <<clock, ticks, rate_limits, blocked_users, security_logs, last_activity, calls, hmac, users, timeline, tasks>>

\* process_rank: the handler of a callback rank_... in the rank state
ProcessRank(p, user, callback_data) ==
    /\ IsIdle(p)
    /\ fsm[user].state = "rank"
    /\ HasPrefix(callback_data, <<"r", "a", "n", "k", "_">>)
    /\ LET rank == Split(callback_data, "_")[2]
       IN  /\ fsm' = [fsm EXCEPT ![user].data.rank = rank, ![user].state = NextState(@)]
           /\ proc' = [proc EXCEPT ![p] =
                  [Idle EXCEPT !.op = "process_rank", !.pc = "ret", !.user = user,
                               !.text = callback_data, !.users0 = users,
                               !.data = [fsm[user].data EXCEPT !.rank = rank],
                               !.out = <<Message(user, "callback_answered", NoReason),
                                         Message(user, "ask_ogs_username", NoReason)>>]]
    /\ UNCHANGED <<clock, ticks, rate_limits, blocked_users, security_logs, last_activity, calls, hmac, users, timeline, tasks>>

\* process_ogs_username up to the insert: the name is stored, and looked up on
\* OGS unless it is none; the lookup answers found or an error
ProcessOgsUsername(p, user, text, lookup) ==
    /\ IsIdle(p)
    /\ fsm[user].state = "ogs_username"
    /\ LET ogs_username == Lower(Strip(text))
           none == ogs_username = <<"n", "o", "n", "e">>
           found == ~none /\ lookup = "found"
           data == [fsm[user].data EXCEPT
                       !.ogs_username = IF none THEN <<>> ELSE ogs_username,
                       !.ogs_id = IF found THEN 555 ELSE @]
       IN  /\ fsm' = [fsm EXCEPT ![user].data = data]
           /\ proc' = [proc EXCEPT ![p] =
                  [Idle EXCEPT !.op = "process_ogs_username", !.pc = "ogs_insert",
                               !.user = user, !.text = text, !.users0 = users,
                               !.data = data,
                               !.out = IF none THEN <<>>
                                       ELSE <<Message(user, "checking_ogs", NoReason),
                                              Message(user, IF found THEN "ogs_found"
                                                            ELSE "ogs_error", NoReason)>>]]
    /\ UNCHANGED <<clock, ticks, rate_limits, blocked_users, security_logs, last_activity, calls, hmac, users, timeline, tasks>>

\* The user document process_ogs_username inserts
UserData(me) ==
    [telegram_id |-> me.user, name |-> me.data.name, rank |-> me.data.rank,
     ogs_username |-> me.data.ogs_username, ogs_id |-> me.data.ogs_id,
     wins |-> 0, losses |-> 0, is_admin |-> FALSE, is_mentor |-> FALSE]

\* process_ogs_username from the insert to state.finish()
OgsInsert(p) ==
    /\ proc[p].pc = "ogs_insert"
    /\ LET me == proc[p]
       IN  /\ users' = Append(users, UserData(me))
           /\ fsm' = [fsm EXCEPT ![me.user] = NoForm]
           /\ proc' = [proc EXCEPT ![p] =
                  [me EXCEPT !.out = @ \o <<Message(me.user,
                                               IF is_rank_sufficient_for_mentor(me.data.rank)
                                               THEN "mentor_offer" ELSE "registration_complete",
                                               NoReason)>>,
                             !.pc = "ret"]]
    /\ UNCHANGED <<clock, ticks, rate_limits, blocked_users, security_logs, last_activity, calls, hmac, timeline, tasks>>

\* The texts and callbacks the users send
NameTexts == {<<"J", "o">>, <<"/", "s", "t", "a", "r", "t">>}

RankCallbacks ==
    {<<"r", "a", "n", "k", "_", "3", "k">>, <<"r", "a", "n", "k", "_", "9", "k">>,
     <<"r", "a", "n", "k", "_", "1", "d">>, <<"r", "a", "n", "k", "s">>}

OgsTexts == {<<"n", "o", "n", "e">>, <<" ", "N", "o", "n", "e", "\n">>, <<"P", "1", "x">>}

\* ------------------------------------------------------------ notifications
\* The messages of msgs that reach their recipient when the sends to the
\* recipients of failing raise
RECURSIVE Delivered(_, _)
Delivered(msgs, failing) ==
    IF msgs = <<>> THEN <<>>
    ELSE (IF Head(msgs).to \in failing THEN <<>> ELSE <<Head(msgs)>>)
         \o Delivered(Tail(msgs), failing)

\* A block_user whose failed notification fails the call
BlockResultStrict(sent, delivered) == IF sent = delivered THEN "true" ELSE "false"

\* block_user's return value after its notifications: each send is in a
\* try/except that logs the failure, and return True follows them
BlockResult(sent, delivered) == "true"

\* block_user from the write to its return, the sends to any of the
\* recipients raising
BlockWriteNotifying(p) ==
    /\ proc[p].pc = "bl_write"
    /\ proc[p].op = "block"
    /\ \E failing \in SUBSET ((Range(ADMIN_CHAT_IDS) \ {0}) \cup {proc[p].user}) :
          LET me == proc[p]
              sent == BlockMessages(me)
              delivered == Delivered(sent, failing)
          IN  /\ blocked_users' = BlockWritten(blocked_users, me)
              /\ security_logs' =
                    log_security_event(security_logs, "user_blocked", me.user,
                        [reason |-> me.reason, admin_id |-> me.admin,
                         duration_days |-> me.duration],
                        "warning", clock)
              /\ proc' = [proc EXCEPT ![p] =
                    [me EXCEPT !.out = @ \o delivered,
                               !.attempts = [i \in 1..Len(sent) |->
                                                [to |-> sent[i].to,
                                                 ok |-> sent[i].to \notin failing]],
                               !.logged = @ + Len(sent) - Len(delivered),
                               !.existing = FALSE,
                               !.result = BlockResult(sent, delivered),
                               !.pc = "ret"]]
    /\ UNCHANGED <<clock, ticks, rate_limits, last_activity, calls, hmac, users, fsm, timeline, tasks>>

\* A call send_admin_alert(message, level), of SecurityManager or of
\* MaintenanceManager
StartAlert(p, kind) ==
    /\ IsIdle(p)
    /\ proc' = [proc EXCEPT ![p] =
                  [Idle EXCEPT !.op = "alert", !.pc = "al_send", !.action = kind, !.at = 1]]
    /\ UNCHANGED <<clock, ticks, rate_limits, blocked_users, security_logs, last_activity, calls, hmac, users, fsm, timeline, tasks>>

\* A loop that a failed send leaves
AfterSendStopping(at, ok) == IF ok THEN at + 1 ELSE Len(ADMIN_CHAT_IDS) + 1

\* The admin the loop of send_admin_alert turns to after a send: the except
\* branch is inside the loop, so it is the next one whether the send raised or not
AfterSend(at, ok) == at + 1

\* One round of the loop of send_admin_alert: an empty id is skipped, any
\* other gets a send, which may raise; after the last round the call returns
AlertNext(p) ==
    /\ proc[p].pc = "al_send"
    /\ \E ok \in BOOLEAN :
          LET me == proc[p]
              past == me.at > Len(ADMIN_CHAT_IDS)
              admin_id == IF past THEN 0 ELSE ADMIN_CHAT_IDS[me.at]
          IN  proc' = [proc EXCEPT ![p] =
                 IF past THEN [me EXCEPT !.pc = "ret"]
                 ELSE IF admin_id = 0 THEN [me EXCEPT !.at = @ + 1]
                 ELSE [me EXCEPT
                          !.attempts = Append(@, [to |-> admin_id, ok |-> ok]),
                          !.out = IF ok THEN Append(@, Message(admin_id, me.action, NoReason))
                                  ELSE @,
                          !.logged = IF ok THEN @ ELSE @ + 1,
                          !.at = AfterSend(@, ok)]]
    /\ UNCHANGED <<clock, ticks, rate_limits, blocked_users, security_logs, last_activity, calls, hmac, users, fsm, timeline, tasks>>

\* ------------------------------------------------------- the periodic tasks
\* The names the import statements of security.py bind in the module
SecurityImports ==
    {"ObjectId", "logging", "os", "re", "json", "hmac", "hashlib", "secrets",
     "datetime", "timedelta", "Dict", "List", "Optional", "Any", "Tuple", "Union",
     "motor", "Bot", "Dispatcher", "types", "BaseMiddleware", "CancelHandler",
     "load_dotenv", "IDFilter"}

\* A lookup of a global name of security.py: NameError unless it is bound
NameDefined(name) == name \in SecurityImports

\* A scheduler as it enters run_maintenance_schedule or
\* run_health_check_schedule for the depth-th nested time: the first sleeps in
\* its loop, the second runs its first check inside the try
Entered(task, name, depth) ==
    [task EXCEPT !.depth = depth, !.pc = IF name = "health" THEN "work" ELSE "sleep"]

\* main.startup: setup_security_for_bot installs the middleware and creates
\* the sweep task with asyncio.create_task; when that raises, startup ends
\* there, before it creates the two scheduler tasks
Startup ==
    /\ \A t \in Tasks : tasks[t].pc = "absent"
    /\ tasks["sweep"].ended = "none"
    /\ tasks' = IF NameDefined("asyncio")
                THEN [t \in Tasks |->
                         IF t = "sweep" THEN [tasks[t] EXCEPT !.pc = "work", !.depth = 1]
                         ELSE Entered(tasks[t], t, 1)]
                ELSE [tasks EXCEPT !["sweep"].ended = "NameError"]
    /\ UNCHANGED <<clock, ticks, rate_limits, blocked_users, security_logs, last_activity, proc, calls, hmac, users, fsm, timeline>>

\* A run of run_maintenance_schedule() or run_health_check_schedule()
RunSchedule(t) ==
    /\ t \in {"maintenance", "health"}
    /\ tasks[t].pc = "absent"
    /\ tasks' = [tasks EXCEPT ![t] = Entered(@, t, 1)]
    /\ UNCHANGED <<clock, ticks, rate_limits, blocked_users, security_logs, last_activity, proc, calls, hmac, users, fsm, timeline>>

\* asyncio.sleep(3600) of the loop returns: the next iteration begins
Wake(t, max) ==
    /\ tasks[t].pc = "sleep"
    /\ tasks[t].runs < max
    /\ tasks' = [tasks EXCEPT ![t].pc = "work", ![t].runs = @ + 1]
    /\ UNCHANGED <<clock, ticks, rate_limits, blocked_users, security_logs, last_activity, proc, calls, hmac, users, fsm, timeline>>

\* The iteration ends without an exception: the loop sleeps again
IterationDone(t) ==
    /\ tasks[t].pc = "work"
    /\ tasks' = [tasks EXCEPT ![t].pc = "sleep"]
    /\ UNCHANGED <<clock, ticks, rate_limits, blocked_users, security_logs, last_activity, proc, calls, hmac, users, fsm, timeline>>

\* The iteration raises: except Exception logs it and sleeps 60 seconds
IterationFails(t) ==
    /\ tasks[t].pc = "work"
    /\ tasks' = [tasks EXCEPT ![t].pc = "backoff", ![t].fails = @ + 1]
    /\ UNCHANGED <<clock, ticks, rate_limits, blocked_users, security_logs, last_activity, proc, calls, hmac, users, fsm, timeline>>

\* After the 60 seconds the handler awaits the scheduler function anew, one
\* call deeper; beyond the interpreter's limit that raises RecursionError
\* inside the handlers, which ends the task
Restarted(task, name, limit) ==
    IF task.depth >= limit
    THEN [task EXCEPT !.pc = "done", !.ended = "RecursionError"]
    ELSE Entered(task, name, task.depth + 1)

Restart(t, limit) ==
    /\ tasks[t].pc = "backoff"
    /\ tasks' = [tasks EXCEPT ![t] = Restarted(@, t, limit)]
    /\ UNCHANGED <<clock, ticks, rate_limits, blocked_users, security_logs, last_activity, proc, calls, hmac, users, fsm, timeline>>

\* A cancellation that the handler of the backoff sleep takes for a failure
CancelledOrRetried(task) ==
    IF task.pc = "sleep"
    THEN [task EXCEPT !.cancelled = TRUE, !.runs0 = task.runs, !.pc = "done", !.ended = "stopped"]
    ELSE [task EXCEPT !.cancelled = TRUE, !.runs0 = task.runs, !.pc = "sleep"]

\* task.cancel() raises CancelledError at the sleep the task awaits: in the
\* loop except asyncio.CancelledError logs it and the function returns, in the
\* handler of a failed iteration it leaves the function
Cancelled(task) ==
    [task EXCEPT !.cancelled = TRUE, !.runs0 = task.runs, !.pc = "done",
                 !.ended = IF task.pc = "sleep" THEN "stopped" ELSE "CancelledError"]

Cancel(t) ==
    /\ tasks[t].pc \in {"sleep", "backoff"}
    /\ tasks' = [tasks EXCEPT ![t] = Cancelled(@)]
    /\ UNCHANGED <<clock, ticks, rate_limits, blocked_users, security_logs, last_activity, proc, calls, hmac, users, fsm, timeline>>

\* ---------------------------------------------------------- specifications
Init ==
    /\ clock = 0
    /\ ticks = 0
    /\ rate_limits = <<>>
    /\ blocked_users = <<>>
    /\ security_logs = EmptyBag
    /\ last_activity = [a \in Actors |-> None]
    /\ proc = [p \in Procs |-> Idle]
    /\ calls = [k \in Actors \X {"message", "callback", "command"} |->
                   [first |-> 0, n |-> 0, ok |-> 0]]
    /\ hmac = [digest |-> [d \in Data |-> <<"0", "0">>], data |-> <<>>,
               signature |-> <<>>, result |-> "none"]
    /\ users = <<>>
    /\ fsm = [a \in Actors |-> NoForm]
    /\ timeline = NoTimeline
    /\ tasks = [t \in Tasks |-> NoTask]

ManualReason == [parts |-> <<"No reason provided">>, pattern |-> <<>>]

\* The block registry alone: operators block and unblock two users, the sweep runs
NextRegistry ==
    \/ \E d \in {1, SECONDS_PER_DAY} : Tick(d, RegistryTicks)
    \/ \E a \in Actors, d \in {None, 1} : StartBlock(1, a, ManualReason, 900, d, RegistryLog)
    \/ \E a \in Actors : StartUnblock(1, a, 900, RegistryLog)
    \/ StartSweep(1, RegistryLog)
    \/ BlockFind(1)
    \/ BlockWrite(1)
    \/ Unblock(1)
    \/ SweepFind(1)
    \/ Return(1)

SpecRegistry == Init /\ [][NextRegistry]_vars

\* The gate before the messages of one user, with the sweep behind it
NextGate ==
    \/ \E d \in {1, SECONDS_PER_DAY} : Tick(d, GateTicks)
    \/ \E t \in {Hello, ScriptTag, JavascriptUri} : StartGateMessage(1, 7, t, GateCount, GateLog)
    \/ StartSweep(1, GateLog)
    \/ GateBlockCheck(1)
    \/ RateFind(1)
    \/ RateWrite(1)
    \/ GateContent(1)
    \/ GateThreat(1)
    \/ BlockFind(1)
    \/ BlockWrite(1)
    \/ Unblock(1)
    \/ SweepFind(1)
    \/ Return(1)

SpecGate == Init /\ [][NextGate]_vars

\* A burst of messages of one user through the gate, and direct calls of
\* check_rate_limit with small limits and windows
NextBurst ==
    \/ Tick(1, BurstTicks)
    \/ \E L \in Limits, W \in Windows :
          StartCheck(1, 42, "message", L, W, MaxCount, BurstLog)
    \/ \E t \in {Hello, ScriptTag} : StartGateMessage(1, 42, t, MESSAGE_LIMIT + 1, BurstLog)
    \/ StartBlock(1, 42, ManualReason, 900, None, BurstLog)
    \/ GateBlockCheck(1)
    \/ RateFind(1)
    \/ RateWrite(1)
    \/ GateContent(1)
    \/ GateThreat(1)
    \/ BlockFind(1)
    \/ BlockWrite(1)
    \/ Return(1)

SpecBurst == Init /\ [][NextBurst]_vars
\* Two coroutines at once on one rate key and on one user's block
NextConc ==
    \/ \E p \in Procs, W \in Windows :
          StartCheck(p, 42, "message", ConcLimit, W, MaxCount, ConcLog)
    \/ \E p \in Procs, by \in {900, None} : StartBlock(p, 7, ManualReason, by, 1, ConcLog)
    \/ \E p \in Procs : RateFind(p)
    \/ \E p \in Procs : RateWrite(p)
    \/ \E p \in Procs : BlockFind(p)
    \/ \E p \in Procs : BlockWrite(p)
    \/ \E p \in Procs : Return(p)

SpecConc == Init /\ [][NextConc]_vars

\* The signing utility: any keyed hash, any data, any signature
InitHmac ==
    /\ clock = 0
    /\ ticks = 0
    /\ rate_limits = <<>>
    /\ blocked_users = <<>>
    /\ security_logs = EmptyBag
    /\ last_activity = [a \in Actors |-> None]
    /\ proc = [p \in Procs |-> Idle]
    /\ calls = [k \in Actors \X {"message", "callback", "command"} |->
                   [first |-> 0, n |-> 0, ok |-> 0]]
    /\ hmac \in [digest : [Data -> Digests], data : {<<>>}, signature : {<<>>},
                  result : {"none"}]
    /\ users = <<>>
    /\ fsm = [a \in Actors |-> NoForm]
    /\ timeline = NoTimeline
    /\ tasks = [t \in Tasks |-> NoTask]

NextHmac ==
    \/ \E d \in Data : SignAndVerify(d)
    \/ \E d \in Data, sig \in Signatures : Verify(d, sig)

SpecHmac == InitHmac /\ [][NextHmac]_vars

\* The pure functions: the validator and the threat detector on their inputs
NextValidate ==
    \/ Validate(1)
    \/ Scan(1)
    \/ Return(1)

SpecValidate == Init /\ [][NextValidate]_vars

\* The bot's /start and its registration conversation, for two users
NextBot ==
    \/ \E a \in Actors : CmdStart(1, a)
    \/ \E a \in Actors : CmdRegister(1, a, BotUsers)
    \/ \E a \in Actors, t \in NameTexts : ProcessName(1, a, t)
    \/ \E a \in Actors, c \in RankCallbacks : ProcessRank(1, a, c)
    \/ \E a \in Actors, t \in OgsTexts, l \in {"found", "error"} : ProcessOgsUsername(1, a, t, l)
    \/ OgsInsert(1)
    \/ Return(1)

SpecBot == Init /\ [][NextBot]_vars

\* One key checked with one limit and one window, its calls kept on the timeline
SpanWindows == {1, 2}

InitSpan ==
    /\ clock = 0
    /\ ticks = 0
    /\ rate_limits = <<>>
    /\ blocked_users = <<>>
    /\ security_logs = EmptyBag
    /\ last_activity = [a \in Actors |-> None]
    /\ proc = [p \in Procs |-> Idle]
    /\ calls = [k \in Actors \X {"message", "callback", "command"} |->
                   [first |-> 0, n |-> 0, ok |-> 0]]
    /\ hmac = [digest |-> [d \in Data |-> <<"0", "0">>], data |-> <<>>,
               signature |-> <<>>, result |-> "none"]
    /\ users = <<>>
    /\ fsm = [a \in Actors |-> NoForm]
    /\ timeline \in [on : {TRUE}, limit : Limits, window : SpanWindows, calls : {<<>>}]
    /\ tasks = [t \in Tasks |-> NoTask]

NextSpan ==
    \/ Tick(1, SpanTicks)
    \/ StartCheck(1, 42, "message", timeline.limit, timeline.window, MaxCount, SpanLog)
    \/ RateFind(1)
    \/ RateWrite(1)
    \/ Return(1)

SpecSpan == InitSpan /\ [][NextSpan]_vars

\* The gate on the messages of one user, any persistence call of it failing
NextFault ==
    \/ Tick(1, GateTicks)
    \/ \E t \in {Hello, ScriptTag} : StartFaultyGate(1, 7, t, GateCount)
    \/ GateBlockCheck(1)
    \/ RateFind(1)
    \/ RateWrite(1)
    \/ GateContent(1)
    \/ GateThreat(1)
    \/ BlockFind(1)
    \/ BlockWrite(1)
    \/ FailBlockCheck(1)
    \/ FailRateFind(1)
    \/ FailRateWrite(1)
    \/ FailAuditWrite(1)
    \/ FailRecentCount(1)
    \/ FailBlock(1)
    \/ Return(1)

SpecFault == Init /\ [][NextFault]_vars

\* The two schedulers run on their own, and the start of the bot
NextTasks ==
    \/ Startup
    \/ \E t \in Tasks : RunSchedule(t)
    \/ \E t \in Tasks : Wake(t, TaskRuns)
    \/ \E t \in Tasks : IterationDone(t)
    \/ \E t \in Tasks : IterationFails(t)
    \/ \E t \in Tasks : Restart(t, RecursionLimit)
    \/ \E t \in Tasks : Cancel(t)

SpecTasks == Init /\ [][NextTasks]_vars

\* The start of the bot, blocks of one day, and the clock; every step that can
\* be taken is taken in the end
NextStartup ==
    \/ Startup
    \/ \E d \in {1, SECONDS_PER_DAY} : Tick(d, RegistryTicks)
    \/ \E a \in Actors : StartBlock(1, a, ManualReason, 900, 1, RegistryLog)
    \/ BlockFind(1)
    \/ BlockWrite(1)
    \/ Return(1)

SpecStartup == Init /\ [][NextStartup]_vars /\ WF_vars(NextStartup)

\* Blocks of one day made one at a time; once the clock passed their expiry,
\* sweeps and explicit unblocks run as two coroutines at once
NextRace ==
    \/ Tick(SECONDS_PER_DAY + 1, RaceTicks)
    \/ \E a \in Actors : Alone(1) /\ StartBlock(1, a, ManualReason, 900, 1, RaceLog)
    \/ BlockFind(1)
    \/ BlockWrite(1)
    \/ \E p \in Procs, a \in Actors :
          proc[1].op /= "block" /\ StartUnblock(p, a, 900, RaceLog)
    \/ \E p \in Procs : proc[1].op /= "block" /\ StartSweep(p, RaceLog)
    \/ \E p \in Procs : SweepFind(p)
    \/ \E p \in Procs : Unblock(p)
    \/ \E p \in Procs : Return(p)

SpecRace == Init /\ [][NextRace]_vars

\* Alerts to the operators and blocks, the sends of which may fail
NextNotify ==
    \/ \E kind \in {"rate_alert", "maintenance_alert"} : StartAlert(1, kind)
    \/ AlertNext(1)
    \/ \E a \in Actors, d \in {None, 1} : StartBlock(1, a, ManualReason, 900, d, RegistryLog)
    \/ BlockFind(1)
    \/ BlockWriteNotifying(1)
    \/ Return(1)

SpecNotify == Init /\ [][NextNotify]_vars

\* The gate on the messages and the callbacks of one user, up to the call
\* past each limit
NextAudit ==
    \/ \E t \in {Hello, ScriptTag} : StartGateMessage(1, 42, t, MESSAGE_LIMIT + 1, AuditLog)
    \/ StartGateCallback(1, 42, <<"rank_3k">>, CALLBACK_LIMIT + 1, AuditLog)
    \/ GateBlockCheck(1)
    \/ RateFind(1)
    \/ RateWrite(1)
    \/ GateContent(1)
    \/ GateThreat(1)
    \/ BlockFind(1)
    \/ BlockWrite(1)
    \/ Return(1)

SpecAudit == Init /\ [][NextAudit]_vars

\* The gate on the messages and the callbacks of one user, the update of
\* last_activity failing or not
NextActivity ==
    \/ \E t \in {Hello, ScriptTag} : StartGateMessage(1, 7, t, GateCount, GateLog)
    \/ StartGateCallback(1, 7, <<"rank_3k">>, CALLBACK_LIMIT + 1, GateLog)
    \/ GateBlockCheck(1)
    \/ RateFind(1)
    \/ RateWrite(1)
    \/ GateContent(1)
    \/ GateThreat(1)
    \/ BlockFind(1)
    \/ BlockWrite(1)
    \/ FailActivity(1)
    \/ Return(1)

SpecActivity == Init /\ [][NextActivity]_vars

\* The duration_days an operator's /block command passes on: None for
\* 'permanent', int(args[1]) otherwise
Durations == {None, 0, 1}

\* Operators block two users with any duration while the clock moves
NextDuration ==
    \/ \E d \in {1, SECONDS_PER_DAY} : Tick(d, RegistryTicks)
    \/ \E a \in Actors, d \in Durations : StartBlock(1, a, ManualReason, 900, d, RegistryLog)
    \/ BlockFind(1)
    \/ BlockWrite(1)
    \/ Return(1)

SpecDuration == Init /\ [][NextDuration]_vars

\* The gate on the messages of two users over more than a day, with direct
\* calls of check_rate_limit that write events of another type
NextThreshold ==
    \/ Tick(SECONDS_PER_DAY, ThresholdTicks)
    \/ StartGateMessage(1, 7, ScriptTag, GateCount, ThresholdLog)
    \/ StartGateMessage(1, 42, ScriptTag, ThresholdOthers, ThresholdLog)
    \/ StartCheck(1, 7, "command", 1, SECONDS_PER_DAY, ThresholdChecks, ThresholdLog)
    \/ GateBlockCheck(1)
    \/ RateFind(1)
    \/ RateWrite(1)
    \/ GateContent(1)
    \/ GateThreat(1)
    \/ BlockFind(1)
    \/ BlockWrite(1)
    \/ Return(1)

SpecThreshold == Init /\ [][NextThreshold]_vars

\* Two users, messages and callbacks at the gate, and direct checks of the
\* callback kind with a small limit
NextKeys ==
    \/ \E a \in Actors : StartGateMessage(1, a, Hello, KeysCount, KeysLog)
    \/ \E a \in Actors : StartGateCallback(1, a, <<"rank_3k">>, KeysCount, KeysLog)
    \/ \E a \in Actors : StartCheck(1, a, "callback", 1, 1, MaxCount, KeysLog)
    \/ GateBlockCheck(1)
    \/ RateFind(1)
    \/ RateWrite(1)
    \/ GateContent(1)
    \/ Return(1)

SpecKeys == Init /\ [][NextKeys]_vars

\* The gate on the callbacks of one user, whose data may look like an attack,
\* between messages of the user that match a signature
NextCallbacks ==
    \/ \E d \in {<<"rank_3k">>, ScriptTag} : StartGateCallback(1, 7, d, GateCount, GateLog)
    \/ StartGateMessage(1, 7, ScriptTag, GateCount, GateLog)
    \/ GateBlockCheck(1)
    \/ RateFind(1)
    \/ RateWrite(1)
    \/ GateContent(1)
    \/ GateThreat(1)
    \/ BlockFind(1)
    \/ BlockWrite(1)
    \/ Return(1)

SpecCallbacks == Init /\ [][NextCallbacks]_vars

\* Operators block two users, any persistence call of block_user failing
NextLookup ==
    \/ Tick(1, RegistryTicks)
    \/ \E a \in Actors, d \in {None, 1} : StartBlock(1, a, ManualReason, 900, d, RegistryLog)
    \/ BlockFind(1)
    \/ BlockWrite(1)
    \/ FailBlock(1)
    \/ FailUserLookup(1)
    \/ Return(1)

SpecLookup == Init /\ [][NextLookup]_vars

\* ------------------------------------------------------------------ claims
Returned(p, op) == proc[p].pc = "ret" /\ proc[p].op = op

Reached(me, stage) == \E i \in 1..Len(me.stages) : me.stages[i] = stage

Run(me) == calls[RateKey(me.user, me.action)]

StoredDoc(user, action) ==
    rate_limits[Min({i \in 1..Len(rate_limits) : rate_limits[i].key = <<user, action>>})]

BlocksOf(coll, user) == {i \in 1..Len(coll) : coll[i].user_id = user}

\* C1: of the sequential check() calls that all fall within window seconds of
\* the first one, calls 1..limit return allowed and call limit+1 returns denied;
\* at the gate (30 messages per 60 s) message events 1..30 of an unblocked actor
\* pass the rate check (and are allowed when their text is harmless) and event
\* 31 is denied with rate_limited.
C1_LimitThenDenied ==
    \A p \in Procs :
        LET me == proc[p]
        IN  /\ Returned(p, "check") =>
                  /\ Run(me).n <= me.limit => me.result = "allowed"
                  /\ Run(me).n = me.limit + 1 => me.result = "denied"
            /\ (Returned(p, "gate_message") /\ Reached(me, "rate")) =>
                  /\ me.limit = 30 /\ me.window = 60
                  /\ Run(me).n <= 30 => me.result /= "rate_limited"
                  /\ (Run(me).n <= 30 /\ me.text = Hello) => me.result = "Allowed"
                  /\ Run(me).n = 31 => me.result = "rate_limited"

C1_Witness ==
    \E p \in Procs :
        /\ Returned(p, "gate_message")
        /\ proc[p].result = "rate_limited"
        /\ Run(proc[p]).n = 31
        /\ clock - Run(proc[p]).first <= 60

\* C2: a check() call made at now with now - windowStart >= window (the
\* boundary now - windowStart = window included) returns allowed and leaves the
\* counter with count = 1 and windowStart = now.
C2_ResetAtWindowEnd ==
    \A p \in Procs :
        LET me == proc[p]
        IN  (/\ Returned(p, "check")
             /\ me.rate_data /= <<>>
             /\ me.now - me.rate_data[1].window_start >= me.window)
            => /\ me.result = "allowed"
               /\ StoredDoc(me.user, me.action).count = 1
               /\ StoredDoc(me.user, me.action).window_start = me.now

\* C3: check() calls for one key that interleave at their awaits lose no
\* update: no two calls hold the same pre-increment count, once all have
\* returned the stored count is the number of calls of the window, and at most
\* limit of them were admitted.
C3_NoLostUpdates ==
    /\ \A p \in Procs, q \in Procs :
          (/\ p /= q
           /\ proc[p].pc = "rl_write" /\ proc[q].pc = "rl_write"
           /\ proc[p].user = proc[q].user /\ proc[p].action = proc[q].action)
          => proc[p].rate_data /= proc[q].rate_data
    /\ (\A p \in Procs : IsIdle(p)) =>
          \A key \in DOMAIN calls :
              calls[key].n > 0 =>
                  /\ StoredCount(key[1], key[2]) = calls[key].n
                  /\ calls[key].ok <= ConcLimit

\* C4: isBlocked(A) is true right after a successful block(A, ...), false right
\* after unblock(A), and false after a sweep that ran later than A's expiry.
C4_BlockedUntilUnblocked ==
    \A p \in Procs :
        LET me == proc[p]
        IN  /\ (Returned(p, "block") /\ me.result = "true") => is_user_blocked(me.user)
            /\ Returned(p, "unblock") => ~is_user_blocked(me.user)
            /\ Returned(p, "sweep") =>
                  \A a \in Actors :
                      (\E i \in BlocksOf(me.blocks0, a) :
                          /\ me.blocks0[i].expiry /= None
                          /\ me.blocks0[i].expiry < me.now)
                      => ~is_user_blocked(a)

C4_Witness ==
    \E p \in Procs :
        /\ Returned(p, "sweep")
        /\ proc[p].found = 1
        /\ \E a \in Actors : BlocksOf(proc[p].blocks0, a) /= {} /\ ~is_user_blocked(a)

\* C5: there is at most one Block record per actor in every reachable state,
\* also when two block() calls for the same actor interleave between their
\* lookup and their write.
C5_OneBlockPerActor ==
    \A a \in Actors : Cardinality(BlocksOf(blocked_users, a)) <= 1

\* The matched events of user in the 24 hours before now
MatchedIn24h(user, now) ==
    LET hits == {e \in BagToSet(security_logs) :
                    /\ e.event_type = "suspicious_message"
                    /\ e.user_id = user
                    /\ now - e.timestamp < 24 * 3600}
    IN  IF hits = {} THEN 0
        ELSE LET RECURSIVE Total(_)
                 Total(S) == IF S = {} THEN 0
                             ELSE LET e == CHOOSE x \in S : TRUE
                                  IN  CopiesIn(e, security_logs) + Total(S \ {e})
             IN  Total(hits)

\* C6: a scanned message that matches a signature is denied with
\* attack_pattern; the actor's 1st and 2nd matched event of the trailing 24
\* hours leave the actor unblocked, the 3rd blocks the actor for one day
\* (expiry = now + 1 day, no operator) and writes a user_blocked event whose
\* reason contains "Automated block".
C6_ThirdMatchBlocks ==
    \A p \in Procs :
        LET me == proc[p]
            k == MatchedIn24h(me.user, clock)
        IN  (Returned(p, "gate_message") /\ Reached(me, "scan")
             /\ detect_potential_attack(me.text).is_attack)
            => /\ me.result = "attack_pattern"
               /\ k >= 1
               /\ k <= 2 => ~is_user_blocked(me.user)
               /\ k = 3 =>
                     /\ \E i \in BlocksOf(blocked_users, me.user) :
                           /\ blocked_users[i].expiry = clock + 86400
                           /\ blocked_users[i].blocked_by = None
                     /\ \E e \in BagToSet(security_logs) :
                           /\ e.event_type = "user_blocked"
                           /\ e.user_id = me.user
                           /\ e.timestamp = clock
                           /\ e.details.duration_days = 1
                           /\ \E i \in 1..Len(e.details.reason.parts) :
                                 e.details.reason.parts[i] = "Automated block"

C6_Witness ==
    \E p \in Procs :
        /\ Returned(p, "gate_message")
        /\ proc[p].result = "attack_pattern"
        /\ MatchedIn24h(proc[p].user, clock) = 3
        /\ is_user_blocked(proc[p].user)

\* C7: the gate runs the block check, the rate check and the content scan in
\* this order and stops at the first denial: an event of a blocked actor is
\* denied as blocked with the rate counters untouched and its text unscanned,
\* and an event over the limit is denied as rate_limited, unscanned and without
\* a suspicious_message entry.
C7_GateOrder ==
    \A p \in Procs :
        LET me == proc[p]
            gate == me.op \in {"gate_message", "gate_callback"}
        IN  /\ (gate /\ me.pc /= "g_block") =>
                  \E n \in 1..3 : me.stages = SubSeq(<<"block", "rate", "scan">>, 1, n)
            /\ (gate /\ me.pc = "ret" /\ BlocksOf(me.blocks0, me.user) /= {}) =>
                  /\ me.result = "blocked"
                  /\ me.stages = <<"block">>
                  /\ rate_limits = me.rate0
            /\ (gate /\ me.pc = "ret" /\ me.result = "blocked") =>
                  /\ me.stages = <<"block">>
                  /\ rate_limits = me.rate0
            /\ (gate /\ me.pc = "ret" /\ Reached(me, "rate") /\ me.found > me.limit) =>
                  /\ me.result = "rate_limited"
                  /\ me.stages = <<"block", "rate">>
                  /\ \A e \in BagToSet(security_logs) :
                        e.event_type = "suspicious_message" =>
                            CopiesIn(e, security_logs) = CopiesIn(e, me.logs0)

C7_Witness ==
    \E p \in Procs :
        /\ Returned(p, "gate_message")
        /\ proc[p].result = "rate_limited"
        /\ detect_potential_attack(proc[p].text).is_attack

\* C8: no message the gate delivers to the offending actor while denying an
\* event (the notices, and the notification of an automatic block) carries the
\* matched text: it is the same whatever signature matched.
C8_NoticesRevealNothing ==
    \A p \in Procs :
        proc[p].op \in {"gate_message", "gate_callback"} =>
            \A i \in 1..Len(proc[p].out) :
                proc[p].out[i].to = proc[p].user => proc[p].out[i].reason.pattern = <<>>

\* C9: unblock(actor) on an actor without a Block record returns false, leaves
\* the blocklist and the audit log as they were and sends nothing; on an actor
\* with a Block record it deletes the record, adds exactly one user_unblocked
\* event and returns true.
C9_UnblockIsExact ==
    \A p \in Procs :
        LET me == proc[p]
            entry == LogEntry("user_unblocked", me.user, [admin_id |-> me.admin], "info", clock)
        IN  Returned(p, "unblock") =>
                IF BlocksOf(me.blocks0, me.user) = {}
                THEN /\ me.result = "false"
                     /\ blocked_users = me.blocks0
                     /\ security_logs = me.logs0
                     /\ me.out = <<>>
                ELSE /\ me.result = "true"
                     /\ BlocksOf(blocked_users, me.user) = {}
                     /\ Len(blocked_users) = Len(me.blocks0) - 1
                     /\ security_logs = me.logs0 (+) SetToBag({entry})
                     /\ BagCardinality(security_logs) = BagCardinality(me.logs0) + 1

C9_Witness ==
    /\ \E p \in Procs : Returned(p, "unblock") /\ proc[p].result = "true"
    /\ Len(blocked_users) = 1

\* C10: verify(data, sign(data)) is true for every data, and verify(data, s) is
\* false for every signature s other than sign(data).
C10_VerifyIffSigned ==
    hmac.result /= "none" =>
        IF hmac.signature = generate_hmac(hmac.data)
        THEN hmac.result = "true"
        ELSE hmac.result = "false"

\* C11: validate(fieldType, value) is false for every empty or absent value,
\* whatever the fieldType (one with no registered rule included), and true for
\* every non-empty value when no rule is registered for fieldType.
C11_EmptyFalseUnknownTrue ==
    \A p \in Procs :
        LET me == proc[p]
            registered == {"name", "rank", "ogs_username", "date", "time", "url"}
        IN  Returned(p, "validate") =>
               /\ (~me.text.given \/ me.text.text = <<>>) => me.result = "false"
               /\ (me.text.given /\ me.text.text /= <<>> /\ me.action \notin registered)
                     => me.result = "true"

C11_Witness ==
    \E p \in Procs :
        /\ Returned(p, "validate")
        /\ proc[p].action = "comment"
        /\ proc[p].text.given /\ Len(proc[p].text.text) = 3
        /\ proc[p].result = "true"

\* The decimal numeral of n (1..39), as characters
Numeral(n) ==
    LET digit == <<"0", "1", "2", "3", "4", "5", "6", "7", "8", "9">>
    IN  IF n < 10 THEN <<digit[n + 1]>> ELSE <<digit[(n \div 10) + 1], digit[(n % 10) + 1]>>

\* C12: validate("rank", v) is true exactly when v is one of "1k".."30k" or
\* "1d".."9d" (every rank of RANKS among them), and validate("date", v) is true
\* exactly when v is four digits, "-", two digits, "-", two digits.
C12_RankAndDateExact ==
    \A p \in Procs :
        LET me == proc[p]
            v == me.text.text
            ranks == {Numeral(n) \o <<"k">> : n \in 1..30} \cup {Numeral(n) \o <<"d">> : n \in 1..9}
            digits == {"0", "1", "2", "3", "4", "5", "6", "7", "8", "9", "\\u0663"}
            dated == /\ Len(v) = 10
                     /\ v[5] = "-" /\ v[8] = "-"
                     /\ \A i \in {1, 2, 3, 4, 6, 7, 9, 10} : v[i] \in digits
        IN  /\ (Returned(p, "validate") /\ me.text.given /\ me.action = "rank") =>
                  /\ me.result = "true" <=> v \in ranks
                  /\ v \in Range(RANKS) => me.result = "true"
            /\ (Returned(p, "validate") /\ me.text.given /\ me.action = "date") =>
                  (me.result = "true" <=> dated)

\* C13: scan(text) reports the first signature, in list order, that matches:
\* no signature before the reported one matches, matched = false exactly when
\* none matches or the text is empty; the script tag, the javascript: URI and
\* the quote-boolean-quote text are matched, the plain sentence is not.
C13_FirstSignatureWins ==
    \A p \in Procs :
        LET me == proc[p]
            hits == {k \in 1..Len(attack_patterns) : Search(attack_patterns[k], me.text) /= <<>>}
        IN  Returned(p, "scan") =>
               /\ me.result = "clean" <=> hits = {}
               /\ me.text = <<>> => me.result = "clean"
               /\ me.result = "matched" =>
                     \E k \in hits :
                         /\ \A j \in hits : k <= j
                         /\ me.reason.pattern = Search(attack_patterns[k], me.text)[1]
               /\ me.text \in {ScriptTag, JavascriptUri, SqlBoolean} => me.result = "matched"
               /\ me.text = Hello => me.result = "clean"

C13_Witness ==
    \E p \in Procs :
        /\ Returned(p, "scan")
        /\ proc[p].result = "matched"
        /\ proc[p].text = <<"javascript:", "%22%3E", "%3Cscript">>
        /\ proc[p].reason.pattern = <<"javascript:">>

\* C14: /start sends exactly one answer: the prompt to register when there is
\* no user record with the sender's id, the welcome-back menu when there is
\* one; it creates and changes no user record.
C14_StartAnswersOnce ==
    \A p \in Procs :
        LET me == proc[p]
            known == \E i \in 1..Len(me.users0) : me.users0[i].telegram_id = me.user
        IN  Returned(p, "cmd_start") =>
               /\ Len(me.out) = 1
               /\ me.out[1].to = me.user
               /\ me.out[1].kind = IF known THEN "welcome_back" ELSE "register_prompt"
               /\ users = me.users0

C14_Witness ==
    \E p \in Procs :
        /\ Returned(p, "cmd_start")
        /\ proc[p].out[1].kind = "register_prompt"
        /\ Len(users) = 1

\* The state part of C15
C15_Steps ==
    \A p \in Procs :
        LET me == proc[p]
        IN  /\ Returned(p, "process_name") =>
                  /\ fsm[me.user].state = "rank"
                  /\ fsm[me.user].data.name = me.text
                  /\ me.out = <<Message(me.user, "rank_keyboard", NoReason)>>
                  /\ users = me.users0
            /\ Returned(p, "process_ogs_username") =>
                  /\ Len(users) = Len(me.users0) + 1
                  /\ users[Len(users)].telegram_id = me.user
                  /\ users[Len(users)].name = me.data.name
                  /\ users[Len(users)].rank = me.data.rank
                  /\ me.data.name \in NameTexts
                  /\ \E c \in RankCallbacks : Len(c) > 5 /\ me.data.rank = SubSeq(c, 6, Len(c))
                  /\ fsm[me.user].state = "none"

\* The step part of C15
C15_Order ==
    /\ \A a \in Actors :
          fsm'[a].state /= fsm[a].state =>
              <<fsm[a].state, fsm'[a].state>> \in
                  {<<"none", "name">>, <<"name", "rank">>, <<"rank", "ogs_username">>,
                   <<"ogs_username", "none">>}
    /\ users' /= users =>
          \E a \in Actors :
              /\ fsm[a].state = "ogs_username" /\ fsm'[a].state = "none"
              /\ users' = Append(users, users'[Len(users')])
              /\ users'[Len(users')].telegram_id = a

\* C15: the registration conversation advances name -> rank -> ogs_username
\* and in no other way: the handler of the name state stores the text as the
\* name, moves to the rank state and sends the rank keyboard; a user record is
\* inserted only in the ogs_username step, with the name and rank stored
\* before, and the conversation is finished after it.
C15_RegistrationOrder == []C15_Steps /\ [][C15_Order]_vars

C15_Witness ==
    \E p \in Procs :
        /\ Returned(p, "process_ogs_username")
        /\ Len(users) = 2
        /\ users[2].rank = <<"1", "d">>

\* C16: in every reachable state there is at most one rate counter per key,
\* and exactly one for a key of which a check() has returned, also when two
\* first checks of the key interleave between find_one and insert_one.
C16_OneCounterPerKey ==
    /\ \A key \in DOMAIN calls : Cardinality(WithKey(rate_limits, key)) <= 1
    /\ \A p \in Procs :
          Returned(p, "check") =>
              Cardinality(WithKey(rate_limits, RateKey(proc[p].user, proc[p].action))) = 1

\* C17: every stored rate counter has count >= 1, and a check() made at now
\* with now - windowStart >= window leaves the counter with count = 1.
C17_CountResets ==
    /\ \A i \in 1..Len(rate_limits) : rate_limits[i].count >= 1
    /\ \A p \in Procs :
          LET me == proc[p]
          IN  (/\ Returned(p, "check")
               /\ me.rate_data /= <<>>
               /\ me.now - me.rate_data[1].window_start >= me.window)
              => StoredCount(me.user, me.action) = 1

\* C19: a check() whose count after the increment is above 2 x limit sends an
\* escalation alert to the operators, a check() whose count is at most
\* 2 x limit sends none, and the alerting call is answered denied.
C19_AlertAboveTwiceLimit ==
    \A p \in Procs :
        LET me == proc[p]
            alerted == \E i \in 1..Len(me.out) : me.out[i].kind = "rate_alert"
        IN  Returned(p, "check") =>
               /\ alerted <=> me.found > 2 * me.limit
               /\ alerted => me.result = "denied"
               /\ alerted => \A a \in Range(ADMIN_CHAT_IDS) \ {0} :
                                \E i \in 1..Len(me.out) :
                                    me.out[i].kind = "rate_alert" /\ me.out[i].to = a

C19_Witness ==
    \E p \in Procs :
        /\ Returned(p, "check")
        /\ proc[p].found = 3
        /\ proc[p].limit = 1
        /\ \E i \in 1..Len(proc[p].out) : proc[p].out[i].kind = "rate_alert"

\* The calls of the timeline made in the span of window seconds that begins at s
InSpan(s) ==
    {i \in 1..Len(timeline.calls) :
        s <= timeline.calls[i].time /\ timeline.calls[i].time <= s + timeline.window}

AdmittedIn(s) == {i \in InSpan(s) : timeline.calls[i].allowed}

\* The span that begins at s holds a call that restarted the window, and a call before it
Straddles(s) ==
    \E i \in InSpan(s), j \in InSpan(s) : j < i /\ timeline.calls[i].restarted

\* C18: with sequential calls of check() for one key, limit L and window W,
\* every span of W seconds holds at most 2 x L admitted calls, and more than L
\* only when the span straddles a restart of the window.
C18_TwiceLimitPerSpan ==
    timeline.on =>
        \A s \in 0..clock :
            /\ Cardinality(AdmittedIn(s)) <= 2 * timeline.limit
            /\ Cardinality(AdmittedIn(s)) > timeline.limit => Straddles(s)

C18_Witness ==
    /\ timeline.on
    /\ \E s \in 0..clock : Cardinality(AdmittedIn(s)) > timeline.limit

\* C20: a persistence error raised in the block check, the rate-limit check or
\* the threat handling (audit write, 24-hour count, automatic block) of the
\* gate is logged and the step fails open: the run of the gate ends with an
\* Allowed or Denied result, and no error reaches the caller.
C20_ErrorsFailOpen ==
    \A p \in Procs :
        LET me == proc[p]
        IN  Returned(p, "gate_message") =>
               /\ me.result \in {"Allowed", "blocked", "rate_limited", "attack_pattern"}
               /\ me.logged = me.faults

\* C21: whenever a persistence operation of the gate fails (block lookup,
\* rate-counter read or write, audit write), an alert is sent to the operators
\* in addition to the logged failure.
C21_ErrorsAlertOperators ==
    \A p \in Procs :
        LET me == proc[p]
        IN  (Returned(p, "gate_message") /\ me.faults > 0) =>
               /\ me.logged > 0
               /\ \E i \in 1..Len(me.out) : me.out[i].to \in Range(ADMIN_CHAT_IDS) \ {0}

\* The documents of coll that are permanent or expire at now or later, in order
RECURSIVE StillValid(_, _)
StillValid(coll, now) ==
    IF coll = <<>> THEN <<>>
    ELSE (IF Head(coll).expiry /= None /\ Head(coll).expiry < now
          THEN <<>> ELSE <<Head(coll)>>)
         \o StillValid(Tail(coll), now)

\* C22: a sweep removes exactly the Block records whose expiry is not null and
\* earlier than now; permanent blocks and blocks that expire later stay as they
\* were, and the count returned is the number of expired records found.
C22_SweepRemovesExpired ==
    \A p \in Procs :
        LET me == proc[p]
        IN  Returned(p, "sweep") =>
               /\ blocked_users = StillValid(me.blocks0, me.now)
               /\ me.found = Len(me.blocks0) - Len(blocked_users)

C22_Witness ==
    \E p \in Procs :
        /\ Returned(p, "sweep")
        /\ proc[p].found = 1
        /\ Len(blocked_users) = 1
        /\ blocked_users[1].expiry = None

\* The state part of C23: a message of an actor whose block was in the
\* blocklist when the message arrived, its expiry passed or not, is denied as
\* blocked
C23_StaleBlockDenies ==
    \A p \in Procs :
        LET me == proc[p]
        IN  (Returned(p, "gate_message") /\ BlocksOf(me.blocks0, me.user) /= {}) =>
               /\ me.result = "blocked"
               /\ BlocksOf(blocked_users, me.user) /= {}

\* The step part of C23: the blocklist loses a record only in a step of
\* unblock_user, made for an unblock() or for a sweep that found the record expired
C23_RemovedOnlyBy ==
    Len(blocked_users') < Len(blocked_users) =>
        \E p \in Procs :
            /\ proc[p].pc = "ub"
            /\ Len(blocked_users') = Len(blocked_users) - 1
            /\ proc[p].op = "sweep" =>
                  \E i \in BlocksOf(blocked_users, Head(proc[p].expired)) :
                      /\ blocked_users[i].expiry /= None
                      /\ blocked_users[i].expiry < proc[p].now
                      /\ blocked_users' = DeleteOne(blocked_users, {i})
            /\ proc[p].op /= "sweep" => proc[p].op = "unblock"

\* C23: a Block record is removed only by unblock() or by a sweep that runs
\* after its expiry; from the moment the expiry passes until that sweep the
\* actor stays blocked and the gate denies the actor's events as blocked.
C23_EnforcedUntilSwept == []C23_StaleBlockDenies /\ [][C23_RemovedOnlyBy]_vars

C23_Witness ==
    \E p \in Procs :
        /\ Returned(p, "gate_message")
        /\ proc[p].result = "blocked"
        /\ \E i \in BlocksOf(blocked_users, proc[p].user) :
              blocked_users[i].expiry /= None /\ blocked_users[i].expiry < clock

\* A block of actor a whose expiry has passed is in the blocklist
ExpiredBlockOf(a) ==
    \E i \in BlocksOf(blocked_users, a) :
        blocked_users[i].expiry /= None /\ blocked_users[i].expiry < clock

\* C24: once the security module was set up the periodic sweep keeps running:
\* every block with an expiry is removed in the end after the expiry passed,
\* without any unblock().
C24_ExpiredBlocksSwept ==
    \A a \in Actors :
        (tasks["sweep"].ended /= "none" /\ ExpiredBlockOf(a)) ~> (BlocksOf(blocked_users, a) = {})

\* C29: a failure raised in an iteration of a periodic task does not end the
\* task, however many iterations failed before: the task waits and begins anew,
\* and only a cancellation ends it.
C29_FailureNeverEndsTask ==
    \A t \in Tasks :
        tasks[t].pc = "done" => tasks[t].cancelled

\* C30: a cancellation delivered to a periodic task while it sleeps between
\* two iterations, or while it sleeps after a failed iteration, ends the task,
\* and no further iteration begins.
C30_CancelEndsTask ==
    \A t \in Tasks :
        tasks[t].cancelled =>
            /\ tasks[t].pc = "done"
            /\ tasks[t].runs = tasks[t].runs0
            /\ tasks[t].ended \in {"stopped", "CancelledError"}

C30_Witness ==
    /\ tasks["maintenance"].cancelled
    /\ tasks["maintenance"].ended = "CancelledError"
    /\ tasks["maintenance"].depth = 2
    /\ tasks["health"].cancelled
    /\ tasks["health"].ended = "stopped"

\* The user_unblocked entries of actor a in logs
UnblockEvents(logs, a) ==
    LET of == {e \in BagToSet(logs) : e.event_type = "user_unblocked" /\ e.user_id = a}
        RECURSIVE Sum(_)
        Sum(S) == IF S = {} THEN 0
                  ELSE LET e == CHOOSE x \in S : TRUE
                       IN  CopiesIn(e, logs) + Sum(S \ {e})
    IN  Sum(of)

\* The unblock notices to actor a among the messages of coroutine me
UnblockNotices(me, a) ==
    Cardinality({i \in 1..Len(me.out) :
                    me.out[i].kind = "unblock_notice" /\ me.out[i].to = a})

\* Coroutine me is a sweep, or an unblock() of actor a, that began while the
\* expired block of a was in the blocklist
RacesFor(me, a) ==
    /\ me.pc = "ret"
    /\ me.op = "sweep" \/ (me.op = "unblock" /\ me.user = a)
    /\ \E i \in BlocksOf(me.blocks0, a) :
          me.blocks0[i].expiry /= None /\ me.blocks0[i].expiry < clock

\* C25: when a sweep and an unblock(), or two sweeps, race on one expired Block
\* record, the record is deleted once, one user_unblocked event is written for
\* it, the call that loses changes nothing and raises nothing, and the actor
\* ends unblocked.
C25_RaceDeletesOnce ==
    \A p \in Procs, q \in Procs, a \in Actors :
        (p /= q /\ RacesFor(proc[p], a) /\ RacesFor(proc[q], a)) =>
            /\ BlocksOf(blocked_users, a) = {}
            /\ UnblockEvents(security_logs, a) = UnblockEvents(proc[p].logs0, a) + 1
            /\ UnblockNotices(proc[p], a) + UnblockNotices(proc[q], a) = 1
            /\ proc[p].result \in {"true", "false", "swept"}

C25_Witness ==
    \E p \in Procs, q \in Procs :
        /\ RacesFor(proc[p], 7) /\ RacesFor(proc[q], 7)
        /\ proc[p].op = "sweep" /\ proc[p].found = 2
        /\ proc[q].op = "unblock" /\ proc[q].result = "true"
        /\ UnblockNotices(proc[p], 7) = 0

\* C26: block(actor, ...) stores the Block record, writes a user_blocked event
\* and returns success, also when the notifications to the actor and to every
\* operator fail.
C26_BlockDespiteSilence ==
    \A p \in Procs :
        LET me == proc[p]
        IN  Returned(p, "block") =>
               /\ me.result = "true"
               /\ \E i \in BlocksOf(blocked_users, me.user) :
                     /\ blocked_users[i].reason = me.reason
                     /\ blocked_users[i].expiry = Expiry(me.now, me.duration)
               /\ BagCardinality(security_logs) = BagCardinality(me.logs0) + 1
               /\ \E e \in BagToSet(security_logs) :
                     /\ e.event_type = "user_blocked" /\ e.user_id = me.user
                     /\ CopiesIn(e, security_logs) = CopiesIn(e, me.logs0) + 1

C26_Witness ==
    \E p \in Procs :
        /\ Returned(p, "block")
        /\ proc[p].out = <<>>
        /\ Len(proc[p].attempts) = 3
        /\ proc[p].logged = 3
        /\ proc[p].result = "true"

\* The operator ids that are not empty, in the order of the list, from the i-th on
RECURSIVE Operators(_)
Operators(i) ==
    IF i > Len(ADMIN_CHAT_IDS) THEN <<>>
    ELSE (IF ADMIN_CHAT_IDS[i] /= 0 THEN <<ADMIN_CHAT_IDS[i]>> ELSE <<>>) \o Operators(i + 1)

\* C27: an alert to the operators attempts one delivery to every operator id
\* that is not empty, whatever deliveries before it failed, and the call
\* raises nothing.
C27_EveryOperatorTried ==
    \A p \in Procs :
        LET me == proc[p]
        IN  Returned(p, "alert") =>
               /\ [i \in 1..Len(me.attempts) |-> me.attempts[i].to] = Operators(1)
               /\ me.logged = Cardinality({i \in 1..Len(me.attempts) : ~me.attempts[i].ok})
               /\ Len(me.out) = Len(me.attempts) - me.logged
               /\ me.result = "none"

C27_Witness ==
    \E p \in Procs :
        /\ Returned(p, "alert")
        /\ Len(proc[p].attempts) = 2
        /\ ~proc[p].attempts[1].ok
        /\ proc[p].attempts[2].ok

\* The run of coroutine me added an audit entry of this type and severity for its user
Audited(me, event_type, severity) ==
    \E e \in BagToSet(security_logs) :
        /\ e.event_type = event_type
        /\ e.user_id = me.user
        /\ e.severity = severity
        /\ CopiesIn(e, security_logs) > CopiesIn(e, me.logs0)

\* C28: every event the gate denies and every automatic block leaves an audit
\* entry for the actor: blocked an attempt event of severity info, rate_limited
\* a rate_limit_exceeded event, attack_pattern a suspicious_message event of
\* severity warning, the automatic block a user_blocked event.
C28_DenialsAudited ==
    \A p \in Procs :
        LET me == proc[p]
        IN  (Returned(p, "gate_message") \/ Returned(p, "gate_callback")) =>
               /\ me.result \in {"Allowed", "blocked", "rate_limited", "attack_pattern"}
               /\ me.result = "blocked" =>
                     Audited(me, IF me.op = "gate_message" THEN "blocked_user_attempt"
                                 ELSE "blocked_user_callback_attempt", "info")
               /\ me.result = "rate_limited" => Audited(me, "rate_limit_exceeded", "warning")
               /\ me.result = "attack_pattern" => Audited(me, "suspicious_message", "warning")
               /\ (BlocksOf(blocked_users, me.user) /= {} /\ BlocksOf(me.blocks0, me.user) = {})
                     => Audited(me, "user_blocked", "warning")

C28_Witness ==
    /\ \E p \in Procs : Returned(p, "gate_message") /\ proc[p].result = "blocked"
    /\ \E e \in BagToSet(security_logs) : e.event_type = "rate_limit_exceeded"
    /\ \E e \in BagToSet(security_logs) : e.event_type = "user_blocked"

\* The event of coroutine me passed the block check, the rate check and the scan
PassedAllChecks(me) ==
    /\ BlocksOf(me.blocks0, me.user) = {}
    /\ me.found <= me.limit
    /\ ~(me.op = "gate_message" /\ me.text /= <<>>
         /\ detect_potential_attack(me.text).is_attack)

\* C31: an event that passes all checks is Allowed even when the update of the
\* actor's last-activity timestamp fails; the failure is logged and nothing else.
C31_ActivityFailureAllowed ==
    \A p \in Procs :
        LET me == proc[p]
        IN  (Returned(p, "gate_message") \/ Returned(p, "gate_callback")) =>
               /\ PassedAllChecks(me) => me.result = "Allowed"
               /\ me.faults > 0 =>
                     /\ PassedAllChecks(me)
                     /\ me.logged = me.faults
                     /\ me.out = <<>>
                     /\ security_logs = me.logs0

C31_Witness ==
    \E p \in Procs :
        /\ Returned(p, "gate_callback")
        /\ proc[p].faults > 0
        /\ proc[p].result = "Allowed"
        /\ last_activity[proc[p].user] = None

\* C32: block() stores expiry = now + durationDays days for every numeric
\* durationDays it is given, 0 included, and a null expiry only when no
\* duration is given.
C32_ExpiryFromDuration ==
    \A p \in Procs :
        LET me == proc[p]
        IN  (Returned(p, "block") /\ me.result = "true") =>
               \A i \in BlocksOf(blocked_users, me.user) :
                   blocked_users[i].expiry =
                      IF me.duration = None THEN None
                      ELSE me.now + me.duration * SECONDS_PER_DAY

\* The audit entries of this type written for user
EventsOf(event_type, user) ==
    {e \in BagToSet(security_logs) : e.event_type = event_type /\ e.user_id = user}

\* C33: the automatic block is invoked only for an actor with at least 3 own
\* suspicious_message events of the trailing 24 hours; older matched events,
\* events of other actors and events of other types do not count.
C33_OnlyOwnRecentMatchesCount ==
    \A p \in Procs :
        LET me == proc[p]
        IN  (me.op = "gate_message" /\ me.pc \in {"bl_find", "bl_write"}) =>
               MatchedIn24h(me.user, clock) >= SUSPICIOUS_THRESHOLD

C33_Witness ==
    \E p \in Procs, other \in Actors :
        /\ proc[p].op = "gate_message"
        /\ proc[p].pc = "bl_find"
        /\ other /= proc[p].user
        /\ EventsOf("suspicious_message", other) /= {}
        /\ EventsOf("rate_limit_exceeded", proc[p].user) /= {}
        /\ \E e \in EventsOf("suspicious_message", proc[p].user) :
              e.timestamp <= clock - SUSPICIOUS_HOURS * SECONDS_PER_HOUR

\* C34: once a sequential check() of a key was denied, every later check() of
\* the key in the same window is denied too: a call that finds the count above
\* the limit before the window has elapsed adds one to it and is denied.
C34_DeniedStaysDenied ==
    /\ \A p \in Procs :
          LET me == proc[p]
          IN  (/\ Returned(p, "check")
               /\ me.rate_data /= <<>>
               /\ me.now - me.rate_data[1].window_start < me.window
               /\ me.rate_data[1].count > me.limit)
              => /\ me.result = "denied"
                 /\ StoredDoc(me.user, me.action).count = me.rate_data[1].count + 1
                 /\ StoredDoc(me.user, me.action).window_start = me.rate_data[1].window_start
    /\ timeline.on =>
          \A i \in 1..Len(timeline.calls), j \in 1..Len(timeline.calls) :
              (/\ i < j
               /\ timeline.calls[j].time - timeline.calls[1].time < timeline.window
               /\ ~timeline.calls[i].allowed)
              => ~timeline.calls[j].allowed

C34_Witness ==
    \E p \in Procs :
        /\ Returned(p, "check")
        /\ proc[p].rate_data /= <<>>
        /\ proc[p].rate_data[1].count > proc[p].limit
        /\ proc[p].now > proc[p].rate_data[1].window_start
        /\ proc[p].now - proc[p].rate_data[1].window_start < proc[p].window
        /\ proc[p].result = "denied"

\* C35: a check() made no more than window seconds after windowStart adds one
\* to the count, sets lastActionAt and leaves windowStart as it was, also when
\* it is denied; so the first call made more than window seconds after
\* windowStart is allowed and restarts the counter, however many denied calls
\* came before it.
C35_DenialsKeepWindowStart ==
    \A p \in Procs :
        LET me == proc[p]
            doc == StoredDoc(me.user, me.action)
        IN  (Returned(p, "check") /\ me.rate_data /= <<>>) =>
               /\ me.now - me.rate_data[1].window_start <= me.window =>
                     /\ doc.window_start = me.rate_data[1].window_start
                     /\ doc.count = me.rate_data[1].count + 1
                     /\ doc.last_action = me.now
               /\ me.now - me.rate_data[1].window_start > me.window =>
                     /\ me.result = "allowed"
                     /\ doc.window_start = me.now
                     /\ doc.count = 1

C35_Witness ==
    \E p \in Procs :
        /\ Returned(p, "check")
        /\ proc[p].rate_data /= <<>>
        /\ proc[p].rate_data[1].count > proc[p].limit
        /\ proc[p].rate_data[1].last_action > proc[p].rate_data[1].window_start
        /\ proc[p].now - proc[p].rate_data[1].window_start > proc[p].window
        /\ proc[p].now - proc[p].rate_data[1].last_action <= proc[p].window
        /\ proc[p].result = "allowed"

\* The places of the rate counters of other keys than the one of coroutine me,
\* as they were when it started
OtherCounters(me) ==
    {i \in 1..Len(me.rate0) : me.rate0[i].key /= RateKey(me.user, me.action)}

\* The counter of the key of coroutine me when it started, <<>> if none
OwnCounter(me) ==
    LET own == {i \in 1..Len(me.rate0) : me.rate0[i].key = RateKey(me.user, me.action)}
    IN  IF own = {} THEN <<>> ELSE <<me.rate0[Min(own)]>>

\* C36: a check of key (A, K), direct or at the gate, leaves the counters of
\* every other actor and of A's other action kinds as they were, adds no
\* counter of another key, and its answer follows from the counter of (A, K)
\* alone.
C36_OnlyOwnCounter ==
    \A p \in Procs :
        LET me == proc[p]
            own == OwnCounter(me)
        IN  ((Returned(p, "check") \/ Returned(p, "gate_message") \/ Returned(p, "gate_callback"))
             /\ Reached(me, "rate")) =>
               /\ \A i \in OtherCounters(me) : rate_limits[i] = me.rate0[i]
               /\ \A i \in 1..Len(rate_limits) :
                     i > Len(me.rate0) => rate_limits[i].key = RateKey(me.user, me.action)
               /\ me.result \in {"denied", "rate_limited"} <=>
                     /\ own /= <<>>
                     /\ me.now - own[1].window_start <= me.window
                     /\ own[1].count + 1 > me.limit

C36_Witness ==
    \E p \in Procs :
        /\ Returned(p, "check")
        /\ proc[p].action = "callback"
        /\ proc[p].result = "allowed"
        /\ OwnCounter(proc[p]) = <<>>
        /\ \E i \in OtherCounters(proc[p]) :
              /\ proc[p].rate0[i].key = RateKey(proc[p].user, "message")
              /\ proc[p].rate0[i].count > proc[p].limit
        /\ \E i \in OtherCounters(proc[p]) : proc[p].rate0[i].key[1] /= proc[p].user

\* C37: a callback event passes the block check and the rate check only: its
\* data is never scanned, it is never denied with attack_pattern, it writes no
\* suspicious_message event and it never writes or causes a block.
C37_CallbacksNotScanned ==
    \A p \in Procs :
        LET me == proc[p]
        IN  me.op = "gate_callback" =>
               /\ ~Reached(me, "scan")
               /\ me.pc \in {"g_block", "rl_find", "rl_write", "g_content", "ret"}
               /\ me.result \in {"none", "Allowed", "blocked", "rate_limited"}
               /\ blocked_users = me.blocks0
               /\ \A e \in BagToSet(security_logs) :
                     e.event_type \in {"suspicious_message", "user_blocked"} =>
                         CopiesIn(e, security_logs) = CopiesIn(e, me.logs0)

C37_Witness ==
    \E p \in Procs :
        /\ Returned(p, "gate_callback")
        /\ proc[p].text = ScriptTag
        /\ detect_potential_attack(proc[p].text).is_attack
        /\ proc[p].result = "Allowed"
        /\ MatchedIn24h(proc[p].user, clock) = SUSPICIOUS_THRESHOLD - 1

\* C38: block() answers failure only when the Block record was not stored:
\* once the record is written the answer is success, whatever happens in the
\* audit write, the user lookup and the notifications that follow.
C38_FailureMeansNotStored ==
    \A p \in Procs :
        LET me == proc[p]
        IN  Returned(p, "block") =>
               /\ me.result \in {"true", "false"}
               /\ me.result = "false" => blocked_users = me.blocks0

\* The blocklist is as it was when a rate check, direct or at the gate, denied
C39_ChecksLeaveBlocks ==
    \A p \in Procs :
        LET me == proc[p]
        IN  /\ me.op = "check" => blocked_users = me.blocks0
            /\ (me.op \in {"gate_message", "gate_callback"} /\ me.result = "rate_limited")
                  => blocked_users = me.blocks0

\* A step that changes the blocklist is the write of block(), of the block
\* that follows the third matched message, or the delete of unblock() or of
\* the sweep
C39_ChangedOnlyBy ==
    blocked_users' /= blocked_users =>
        \E p \in Procs :
            LET me == proc[p]
            IN  \/ me.pc = "bl_write" /\ me.op = "block"
                \/ /\ me.pc = "bl_write" /\ me.op = "gate_message"
                   /\ MatchedIn24h(me.user, clock) >= SUSPICIOUS_THRESHOLD
                \/ me.pc = "ub" /\ me.op \in {"unblock", "sweep"}

\* C39: rate-limit checks never change the blocklist, however far the count
\* is above the limit: no check() creates, replaces or removes a Block record;
\* only block(), unblock(), the sweep and the third matched message do.
C39_ChecksNeverBlock == []C39_ChecksLeaveBlocks /\ [][C39_ChangedOnlyBy]_vars

C39_Witness ==
    \E p \in Procs :
        /\ Returned(p, "gate_message")
        /\ proc[p].result = "rate_limited"
        /\ proc[p].found > MESSAGE_LIMIT
        /\ blocked_users = <<>>
====
